---- MODULE Spec2Model ----
(***************************************************************************)
(* Map generation and validation of the Natac board game engine.           *)
(*                                                                         *)
(* The module models generateMap (map/index.ts), the regular hex generator *)
(* (map/hexGenerator.ts), the bridge that assembles the irregular graph    *)
(* (map/mapgenBridge: convertVizDataToMapData) and validateMap             *)
(* (map/validator).                                                        *)
(*                                                                         *)
(* Conventions.                                                            *)
(*  - generateId draws a random 9-character base-36 suffix; ids are        *)
(*    modelled as fresh integers: tiles 1.., nodes 101.., edges 1001...    *)
(*    The null reference is NoId.                                          *)
(*  - Lengths are fixed-point integers in thousandths of a pixel; sqrt(3)  *)
(*    is 1.73205 rounded to that precision.                                *)
(*  - A 32-bit unsigned value is a record [hi, lo] of two 16-bit halves.   *)
(***************************************************************************)
EXTENDS Integers, Sequences, FiniteSets, TLC

NoId == 0

Range(s) == { s[i] : i \in DOMAIN s }

\* A sequence written as a function constructor, as an explicit tuple of its
\* values (so that each element is computed once).
AsTuple(f) == f \o << >>

\* Op applied to the value of v: v is computed once, before Op uses it.
With(v, Op(_)) == CHOOSE r \in { Op(x) : x \in {v} } : TRUE

\* The indices lo..hi at which a sequence of booleans is TRUE, ascending
\* (Array.filter); split in halves to keep the evaluation shallow.
RECURSIVE IndicesBetween(_, _, _)
IndicesBetween(flags, lo, hi) ==
  IF lo > hi THEN << >>
  ELSE IF lo = hi THEN (IF flags[lo] THEN << lo >> ELSE << >>)
  ELSE With((lo + hi) \div 2, LAMBDA mid :
         IndicesBetween(flags, lo, mid) \o IndicesBetween(flags, mid + 1, hi))

IndicesWhere(flags) == IndicesBetween(flags, 1, Len(flags))

Filter(s, flags) ==
  With(IndicesWhere(flags), LAMBDA ix : AsTuple([k \in DOMAIN ix |-> s[ix[k]]]))

\* Concatenation of n blocks of equal length w.
FlattenBlocks(ss, n, w) ==
  AsTuple([p \in 1..(n * w) |-> ss[((p - 1) \div w) + 1][((p - 1) % w) + 1]])

\* The index of x in a duplicate-free sequence s (a Map lookup).
IndexOf(s, x) == CHOOSE i \in DOMAIN s : s[i] = x

\* Keeps the first occurrence of every element, in order (Map/Set insertion).
Dedupe(s) == Filter(s, AsTuple([p \in DOMAIN s |-> \A q \in 1..(p - 1) : s[q] # s[p]]))

\* Concatenation of the sequences ss[lo], ..., ss[hi].
RECURSIVE ConcatBetween(_, _, _)
ConcatBetween(ss, lo, hi) ==
  IF lo > hi THEN << >>
  ELSE IF lo = hi THEN ss[lo]
  ELSE With((lo + hi) \div 2, LAMBDA mid :
         ConcatBetween(ss, lo, mid) \o ConcatBetween(ss, mid + 1, hi))

Concat(ss) == ConcatBetween(ss, 1, Len(ss))

(***************************************************************************)
(* SeededRandom (core/utils.ts).  The LCG state stays below 2^32 and every *)
(* product below 2^53, so the double arithmetic of the source is exact.    *)
(***************************************************************************)
Half16 == 65536

SeededRandom(seed) == [hi |-> seed \div Half16, lo |-> seed % Half16]

\* seed = (seed * 1664525 + 1013904223) % 4294967296, on 16-bit halves:
\* 1664525 = 25 * 2^16 + 26125 and 1013904223 = 15470 * 2^16 + 62303.
RngNext(g) ==
  LET t == g.lo * 26125 + 62303
  IN [hi |-> (g.hi * 26125 + g.lo * 25 + 15470 + t \div Half16) % Half16,
      lo |-> t % Half16]

\* The n generator states that n calls of next() produce after g, in order.
RECURSIVE RngRun(_, _)
RngRun(g, n) ==
  IF n <= 0 THEN << >>
  ELSE IF n = 1 THEN << RngNext(g) >>
  ELSE With(RngRun(g, n \div 2), LAMBDA run :
         run \o RngRun(run[Len(run)], n - (n \div 2)))

\* The generator after the calls of a run that started at g.
RngAfter(g, run) == IF run = << >> THEN g ELSE run[Len(run)]

\* nextInt(min, max) = Math.floor(next() * (max - min + 1)) + min, for the
\* state g2 that its call of next() left.
RngInt(g2, min, max) ==
  ((g2.hi * (max - min + 1) + (g2.lo * (max - min + 1)) \div Half16) \div Half16) + min

Swap(s, i, j) == [s EXCEPT ![i] = s[j], ![j] = s[i]]

\* The swaps swaps[lo], ..., swaps[hi] applied to arr in that order.
RECURSIVE ApplySwaps(_, _, _, _)
ApplySwaps(arr, swaps, lo, hi) ==
  IF lo > hi THEN arr
  ELSE IF lo = hi THEN Swap(arr, swaps[lo][1], swaps[lo][2])
  ELSE With((lo + hi) \div 2, LAMBDA mid :
         With(ApplySwaps(arr, swaps, lo, mid), LAMBDA half :
           ApplySwaps(half, swaps, mid + 1, hi)))

\* shuffle: "for (i = length - 1; i > 0; i--) { j = nextInt(0, i); swap(i, j) }";
\* the k-th round swaps the 1-based places Len(arr) - k + 1 and j + 1.
RngShuffle(g, arr) ==
  With(RngRun(g, Len(arr) - 1), LAMBDA run :
    [rng |-> RngAfter(g, run),
     arr |-> ApplySwaps(arr,
               AsTuple([k \in DOMAIN run |->
                          << Len(arr) - k + 1, RngInt(run[k], 0, Len(arr) - k) + 1 >>]),
               1, Len(run))])

(***************************************************************************)
(* Hex geometry (core/utils.ts).                                           *)
(***************************************************************************)
hexToPixel(hex) == << 75000 * hex[1], 43301 * hex[1] + 86603 * hex[2] >>

\* angle = (PI / 3) * i - PI / 6 for i = 0..5, times HEX_SIZE (50 px).
CornerOffsets ==
  << <<43301, -25000>>, <<43301, 25000>>, <<0, 50000>>,
     <<-43301, 25000>>, <<-43301, -25000>>, <<0, -50000>> >>

hexCorners(center) ==
  AsTuple([i \in 1..6 |->
             << center[1] + CornerOffsets[i][1], center[2] + CornerOffsets[i][2] >>])

RingDirections ==
  << <<-1, 1>>, <<-1, 0>>, <<0, -1>>, <<1, -1>>, <<1, 0>>, <<0, 1>> >>

RECURSIVE DirPrefix(_)
DirPrefix(d) ==
  IF d = 0 THEN <<0, 0>>
  ELSE << DirPrefix(d - 1)[1] + RingDirections[d][1],
          DirPrefix(d - 1)[2] + RingDirections[d][2] >>

\* Starts at center + radius * (1, -1) and walks radius steps per direction.
hexRing(center, radius) ==
  IF radius = 0 THEN << center >>
  ELSE [k \in 1..(6 * radius) |->
          LET d == (k - 1) \div radius
              i == (k - 1) % radius
          IN << center[1] + radius + radius * DirPrefix(d)[1] + i * RingDirections[d + 1][1],
                center[2] - radius + radius * DirPrefix(d)[2] + i * RingDirections[d + 1][2] >>]

RECURSIVE hexSpiralFrom(_, _, _)
hexSpiralFrom(center, r, radius) ==
  IF r > radius THEN << >>
  ELSE hexRing(center, r) \o hexSpiralFrom(center, r + 1, radius)

hexSpiral(center, radius) == << center >> \o hexSpiralFrom(center, 1, radius)

\* Number.prototype.toFixed(1): round to tenths, half away from zero.
toFixed1(v) == IF v >= 0 THEN (v + 50) \div 100 ELSE -((50 - v) \div 100)

PositionKey(position) == << toFixed1(position[1]), toFixed1(position[2]) >>

(***************************************************************************)
(* Regular hex generator (map/hexGenerator.ts).                            *)
(***************************************************************************)
TileIdBase == 0
NodeIdBase == 100
EdgeIdBase == 1000

HEXAGON == 6

TilesAtRadius(r) == 1 + 3 * r * (r + 1)

\* "for (r = 0; r <= 10; r++) if (tilesAtRadius <= target) radius = r else break"
\* with the default of 2 when targetTileCount is falsy or below 1.
RadiusFor(targetTileCount) ==
  IF targetTileCount = 0 \/ TilesAtRadius(0) > targetTileCount THEN 2
  ELSE CHOOSE r \in 0..10 :
         /\ TilesAtRadius(r) <= targetTileCount
         /\ (r = 10 \/ TilesAtRadius(r + 1) > targetTileCount)

\* The pair of node ids of side i of a polygon with node list ns.
SideOf(ns, i) == << ns[i], ns[(i % Len(ns)) + 1] >>

SamePair(e, f) == (e[1] = f[1] /\ e[2] = f[2]) \/ (e[1] = f[2] /\ e[2] = f[1])

\* getOrCreateEdge: one entry per unordered pair, in order of first use.
DedupePairs(s) ==
  Filter(s, AsTuple([p \in DOMAIN s |-> \A q \in 1..(p - 1) : ~SamePair(s[q], s[p])]))

PairIndex(pairs, e) == CHOOSE k \in DOMAIN pairs : SamePair(pairs[k], e)

ResourceDeck ==
  << "wood", "wood", "wood", "wood", "brick", "brick", "brick",
     "sheep", "sheep", "sheep", "sheep", "wheat", "wheat", "wheat", "wheat",
     "ore", "ore", "ore", "desert" >>

DiceNumbers == << 2, 3, 3, 4, 4, 5, 5, 6, 6, 8, 8, 9, 9, 10, 10, 11, 11, 12 >>

ExtraResources == << "wood", "brick", "sheep", "wheat", "ore" >>

\* Number of non-desert entries among the first k of a resource sequence.
\* diceIdx when tile k is dealt its number: the non-desert tiles so far.
NonDesertBefore(rs, k) == Cardinality({ j \in 1..k : rs[j] # "desert" })

\* Draws for the tiles beyond the 19-card deck: resource, then dice number.
ExtraDraws(g, n) ==
  With(RngRun(g, 2 * n), LAMBDA run :
    AsTuple([k \in 1..n |->
      [resource |-> ExtraResources[RngInt(run[2 * k - 1], 0, Len(ExtraResources) - 1) + 1],
       diceNumber |-> DiceNumbers[RngInt(run[2 * k], 0, Len(DiceNumbers) - 1) + 1]]]))

\* assignResourcesAndDice of hexGenerator.ts; diceNumber 0 stands for null.
hexAssignResourcesAndDice(tiles, g) ==
  With(RngShuffle(g, ResourceDeck), LAMBDA sr :
  With(RngShuffle(sr.rng, DiceNumbers), LAMBDA sd :
  With(ExtraDraws(sd.rng, IF Len(tiles) > Len(ResourceDeck)
                            THEN Len(tiles) - Len(ResourceDeck) ELSE 0), LAMBDA extra :
    AsTuple([idx \in DOMAIN tiles |->
      IF idx <= Len(ResourceDeck)
        THEN IF sr.arr[idx] = "desert"
               THEN [tiles[idx] EXCEPT !.resource = "desert", !.diceNumber = 0,
                                       !.robberPresent = TRUE]
               ELSE [tiles[idx] EXCEPT !.resource = sr.arr[idx],
                       !.diceNumber = sd.arr[NonDesertBefore(sr.arr, idx)]]
        ELSE [tiles[idx] EXCEPT !.resource = extra[idx - Len(ResourceDeck)].resource,
                                !.diceNumber = extra[idx - Len(ResourceDeck)].diceNumber]]))))

generateRegularHexMap(targetTileCount, seed) ==
  LET radius == RadiusFor(targetTileCount)
      hexCoords == hexSpiral(<<0, 0>>, radius)
      n == Len(hexCoords)
      cornerKeys == AsTuple([t \in 1..n |->
                       LET cs == hexCorners(hexToPixel(hexCoords[t]))
                       IN AsTuple([i \in 1..6 |-> PositionKey(cs[i])])])
      nodeKeys == Dedupe(FlattenBlocks(cornerKeys, n, 6))
      nodeIds == AsTuple([t \in 1..n |->
                    AsTuple([i \in 1..6 |-> NodeIdBase + IndexOf(nodeKeys, cornerKeys[t][i])])])
      sides == FlattenBlocks([t \in 1..n |-> [i \in 1..6 |-> SideOf(nodeIds[t], i)]], n, 6)
      pairs == DedupePairs(sides)
      edgeIds == AsTuple([t \in 1..n |->
                    AsTuple([i \in 1..6 |->
                       EdgeIdBase + PairIndex(pairs, SideOf(nodeIds[t], i))])])
      tiles == AsTuple([t \in 1..n |->
                  [id |-> TileIdBase + t, shape |-> HEXAGON, resource |-> "wood",
                   diceNumber |-> 0, edges |-> edgeIds[t], nodes |-> nodeIds[t],
                   robberPresent |-> FALSE, isBoundary |-> FALSE]])
      nodeSets == AsTuple([t \in 1..n |-> Range(nodeIds[t])])
      edgeSets == AsTuple([t \in 1..n |-> Range(edgeIds[t])])
      nodes == AsTuple([k \in DOMAIN nodeKeys |->
                  [id |-> NodeIdBase + k,
                   tiles |-> LET ts == IndicesWhere(AsTuple([t \in 1..n |->
                                                     (NodeIdBase + k) \in nodeSets[t]]))
                             IN AsTuple([j \in DOMAIN ts |-> TileIdBase + ts[j]])]])
      edges == AsTuple([k \in DOMAIN pairs |->
                  LET ts == IndicesWhere(AsTuple([t \in 1..n |->
                                            (EdgeIdBase + k) \in edgeSets[t]]))
                  IN [id |-> EdgeIdBase + k, nodeA |-> pairs[k][1], nodeB |-> pairs[k][2],
                      tileLeft |-> IF Len(ts) >= 1 THEN TileIdBase + ts[1] ELSE NoId,
                      tileRight |-> IF Len(ts) >= 2 THEN TileIdBase + ts[2] ELSE NoId]])
  IN [tiles |-> hexAssignResourcesAndDice(tiles, SeededRandom(seed)),
      nodes |-> nodes, edges |-> edges]

generateStandardCatanMap(seed) == generateRegularHexMap(19, seed)

generateExpandedHexMap(size, seed) == generateRegularHexMap(size, seed)

(***************************************************************************)
(* validateMap (map/validator).  The result is [threw, valid, errors]:     *)
(* errors is the set of entries pushed on the errors list, one record      *)
(* [kind, a, b] per message (a, b are the ids the message names), and      *)
(* threw tells that the call ended in a TypeError instead of returning.    *)
(***************************************************************************)
Err(kind, a, b) == [kind |-> kind, a |-> a, b |-> b]

IdsOf(objs) == { objs[i].id : i \in DOMAIN objs }

\* new Map(objs.map(o => [o.id, o])).get(id): the last object with that id.
ById(objs, id) ==
  objs[CHOOSE i \in DOMAIN objs :
         objs[i].id = id /\ \A j \in DOMAIN objs : objs[j].id = id => j <= i]

\* Tiles adjacent to an existing tile through its nodes (validator step 5);
\* may name ids of tiles that do not exist.
AdjacentTiles(m, currentId) ==
  LET current == ById(m.tiles, currentId)
      nodeIds == IdsOf(m.nodes)
  IN UNION { Range(ById(m.nodes, nodeId).tiles) \ {currentId} :
               nodeId \in Range(current.nodes) \cap nodeIds }

\* Every id the traversal from the ids in frontier puts into visited.
RECURSIVE Visit(_, _, _)
Visit(m, visited, frontier) ==
  With(UNION { AdjacentTiles(m, id) : id \in frontier \cap IdsOf(m.tiles) } \ visited,
       LAMBDA fresh :
         IF fresh = {} THEN visited
         ELSE With(visited \cup fresh, LAMBDA seen : Visit(m, seen, fresh)))

VisitedFrom(m, startId) == Visit(m, {startId}, {startId})

validateMap(m) ==
  LET tiles == m.tiles
      nodes == m.nodes
      edges == m.edges
      tileIds == IdsOf(tiles)
      nodeIds == IdsOf(nodes)
      edgeIds == IdsOf(edges)
      \* 1. unique ids
      e1 == (IF Cardinality(tileIds) # Len(tiles) THEN {Err("DuplicateTileIds", 0, 0)} ELSE {})
            \cup (IF Cardinality(nodeIds) # Len(nodes) THEN {Err("DuplicateNodeIds", 0, 0)} ELSE {})
            \cup (IF Cardinality(edgeIds) # Len(edges) THEN {Err("DuplicateEdgeIds", 0, 0)} ELSE {})
      \* 2. vertex-degree invariant and referenced tiles
      e2 == { Err("NodeTileCount", nodes[i].id, Len(nodes[i].tiles)) :
                i \in { j \in DOMAIN nodes : Len(nodes[j].tiles) < 1 \/ Len(nodes[j].tiles) > 3 } }
            \cup UNION { { Err("NodeMissingTile", nodes[i].id, t) :
                             t \in Range(nodes[i].tiles) \ tileIds } : i \in DOMAIN nodes }
      \* 3. tile references, shape against node and edge counts
      e3a == UNION { { Err("TileMissingNode", tiles[i].id, n) :
                         n \in Range(tiles[i].nodes) \ nodeIds } : i \in DOMAIN tiles }
      e3b == UNION { { Err("TileNodeNoBackRef", tiles[i].id, n) :
                         n \in { k \in Range(tiles[i].nodes) \cap nodeIds :
                                   tiles[i].id \notin Range(ById(nodes, k).tiles) } } :
                     i \in DOMAIN tiles }
      e3c == UNION { { Err("TileMissingEdge", tiles[i].id, e) :
                         e \in Range(tiles[i].edges) \ edgeIds } : i \in DOMAIN tiles }
      e3d == { Err("TileShapeNodes", tiles[i].id, Len(tiles[i].nodes)) :
                 i \in { j \in DOMAIN tiles :
                           ~tiles[j].isBoundary /\ Len(tiles[j].nodes) # tiles[j].shape } }
             \cup { Err("TileShapeEdges", tiles[i].id, Len(tiles[i].edges)) :
                 i \in { j \in DOMAIN tiles :
                           ~tiles[j].isBoundary /\ Len(tiles[j].edges) # tiles[j].shape } }
             \cup { Err("BoundaryTileNodes", tiles[i].id, Len(tiles[i].nodes)) :
                 i \in { j \in DOMAIN tiles : tiles[j].isBoundary /\ Len(tiles[j].nodes) < 3 } }
             \cup { Err("BoundaryTileEdges", tiles[i].id, Len(tiles[i].edges)) :
                 i \in { j \in DOMAIN tiles : tiles[j].isBoundary /\ Len(tiles[j].edges) < 3 } }
             \cup { Err("TileShapeInvalid", tiles[i].id, tiles[i].shape) :
                 i \in { j \in DOMAIN tiles : tiles[j].shape < 3 } }
      \* 4. edge references and distinct endpoints
      e4 == { Err("EdgeMissingNode", edges[i].id, edges[i].nodeA) :
                i \in { j \in DOMAIN edges : edges[j].nodeA \notin nodeIds } }
            \cup { Err("EdgeMissingNode", edges[i].id, edges[i].nodeB) :
                i \in { j \in DOMAIN edges : edges[j].nodeB \notin nodeIds } }
            \cup { Err("EdgeMissingTile", edges[i].id, edges[i].tileLeft) :
                i \in { j \in DOMAIN edges :
                          edges[j].tileLeft # NoId /\ edges[j].tileLeft \notin tileIds } }
            \cup { Err("EdgeMissingTile", edges[i].id, edges[i].tileRight) :
                i \in { j \in DOMAIN edges :
                          edges[j].tileRight # NoId /\ edges[j].tileRight \notin tileIds } }
            \cup { Err("EdgeSameEndpoints", edges[i].id, edges[i].nodeA) :
                i \in { j \in DOMAIN edges : edges[j].nodeA = edges[j].nodeB } }
      \* 5. connectivity from tiles[0]; dequeuing an id without a tile reads
      \*    "nodes" of undefined
      visited == IF Len(tiles) > 0 THEN VisitedFrom(m, tiles[1].id) ELSE {}
      threw == ~(visited \subseteq tileIds)
      e5 == IF Len(tiles) > 0 /\ Cardinality(visited) # Len(tiles)
              THEN {Err("NotConnected", Cardinality(visited), Len(tiles))} ELSE {}
      \* 6. duplicate edges: `${nodeA}-${nodeB}` of an earlier edge, either way round
      e6 == { Err("DuplicateEdge", edges[i].nodeA, edges[i].nodeB) :
                i \in { j \in DOMAIN edges :
                          \E k \in 1..(j - 1) :
                            SamePair(<<edges[k].nodeA, edges[k].nodeB>>,
                                     <<edges[j].nodeA, edges[j].nodeB>>) } }
      errors == e1 \cup e2 \cup e3a \cup e3b \cup e3c \cup e3d \cup e4 \cup e5 \cup e6
  IN IF threw THEN [threw |-> TRUE, valid |-> FALSE, errors |-> {}]
     ELSE [threw |-> FALSE, valid |-> (errors = {}), errors |-> errors]

\* A validateMapOrThrow that lets every map through.
validateMapOrThrow_Silent(m) == "ok"

\* "ok" when the call returns, otherwise the error that is thrown.
validateMapOrThrow(m) ==
  LET result == validateMap(m)
  IN IF result.threw THEN "TypeError"
     ELSE IF ~result.valid THEN "ValidationFailed" ELSE "ok"

(***************************************************************************)
(* The irregular generator (mapgen.js) as seen by the bridge.              *)
(* A scene is a Delaunay triangulation whose triangles all pass the        *)
(* validity test of buildVoronoi; inner are the points that can become     *)
(* land, and open those of them that erosion may turn into water.  Point   *)
(* and triangle indices start at 1.                                        *)
(***************************************************************************)
Scenes ==
  <<
  [ points |-> << <<3, -2>>, <<95, 18>>, <<-25, 103>>, <<-98, -19>>, <<16, -103>>, <<165, 75>>, <<67, 180>>, <<-90, 170>>, <<-171, 66>>, <<-171, -86>>, <<-68, -179>>, <<81, -179>>, <<179, -63>> >>,
    triangles |-> << <<1, 2, 3>>, <<1, 2, 5>>, <<1, 3, 4>>, <<1, 4, 5>>, <<2, 3, 7>>, <<2, 5, 13>>, <<2, 6, 7>>, <<2, 6, 13>>, <<3, 4, 9>>, <<3, 7, 8>>, <<3, 8, 9>>, <<4, 5, 11>>, <<4, 9, 10>>, <<4, 10, 11>>, <<5, 11, 12>>, <<5, 12, 13>> >>,
    inner |-> 1..5, open |-> 1..5 ],
  [ points |-> << <<3, -2>>, <<101, 18>>, <<16, 98>>, <<-85, 47>>, <<-63, -70>>, <<51, -93>>, <<177, 82>>, <<83, 164>>, <<-31, 191>>, <<-124, 136>>, <<-183, 29>>, <<-172, -91>>, <<-92, -162>>, <<26, -191>>, <<135, -140>>, <<181, -38>> >>,
    triangles |-> << <<1, 2, 3>>, <<1, 2, 6>>, <<1, 3, 4>>, <<1, 4, 5>>, <<1, 5, 6>>, <<2, 3, 8>>, <<2, 6, 16>>, <<2, 7, 8>>, <<2, 7, 16>>, <<3, 4, 10>>, <<3, 8, 9>>, <<3, 9, 10>>, <<4, 5, 11>>, <<4, 10, 11>>, <<5, 6, 14>>, <<5, 11, 12>>, <<5, 12, 13>>, <<5, 13, 14>>, <<6, 14, 15>>, <<6, 15, 16>> >>,
    inner |-> 1..6, open |-> 1..6 ],
  [ points |-> << <<3, -2>>, <<104, 23>>, <<27, 96>>, <<-60, 73>>, <<-104, -26>>, <<-36, -91>>, <<69, -74>>, <<174, 85>>, <<99, 157>>, <<21, 187>>, <<-78, 166>>, <<-159, 107>>, <<-195, 19>>, <<-169, -89>>, <<-104, -152>>, <<-14, -183>>, <<78, -173>>, <<158, -112>>, <<182, -16>> >>,
    triangles |-> << <<1, 2, 3>>, <<1, 2, 7>>, <<1, 3, 4>>, <<1, 4, 5>>, <<1, 5, 6>>, <<1, 6, 7>>, <<2, 3, 9>>, <<2, 7, 19>>, <<2, 8, 9>>, <<2, 8, 19>>, <<3, 4, 11>>, <<3, 9, 10>>, <<3, 10, 11>>, <<4, 5, 12>>, <<4, 11, 12>>, <<5, 6, 15>>, <<5, 12, 13>>, <<5, 13, 14>>, <<5, 14, 15>>, <<6, 7, 16>>, <<6, 15, 16>>, <<7, 16, 17>>, <<7, 17, 18>>, <<7, 18, 19>> >>,
    inner |-> 1..7, open |-> 1..7 ],
  [ points |-> << <<3, -2>>, <<95, 19>>, <<55, 79>>, <<-23, 103>>, <<-89, 50>>, <<-102, -23>>, <<-49, -81>>, <<17, -98>>, <<87, -61>>, <<177, 90>>, <<132, 146>>, <<70, 177>>, <<-7, 184>>, <<-76, 170>>, <<-150, 126>>, <<-171, 68>>, <<-183, -7>>, <<-176, -83>>, <<-131, -148>>, <<-59, -175>>, <<6, -197>>, <<85, -172>>, <<136, -119>>, <<187, -65>>, <<186, 5>> >>,
    triangles |-> << <<1, 2, 3>>, <<1, 2, 9>>, <<1, 3, 4>>, <<1, 4, 5>>, <<1, 5, 6>>, <<1, 6, 7>>, <<1, 7, 8>>, <<1, 8, 9>>, <<2, 3, 10>>, <<2, 9, 25>>, <<2, 10, 25>>, <<3, 4, 12>>, <<3, 10, 11>>, <<3, 11, 12>>, <<4, 5, 14>>, <<4, 12, 13>>, <<4, 13, 14>>, <<5, 6, 17>>, <<5, 14, 15>>, <<5, 15, 16>>, <<5, 16, 17>>, <<6, 7, 18>>, <<6, 17, 18>>, <<7, 8, 20>>, <<7, 18, 19>>, <<7, 19, 20>>, <<8, 9, 22>>, <<8, 20, 21>>, <<8, 21, 22>>, <<9, 22, 23>>, <<9, 23, 24>>, <<9, 24, 25>> >>,
    inner |-> 1..9, open |-> {2, 5, 8} ]
  >>

\* tiles[i] of buildVoronoi: the triangles that have point i as a corner.
TrianglesOfPoint(scene, p) ==
  IndicesWhere(AsTuple([t \in DOMAIN scene.triangles |->
                          p \in Range(scene.triangles[t])]))

\* tileNeighbors[i]: the points that share at least two triangles with i.
NeighborsOfPoint(scene, p) ==
  { q \in DOMAIN scene.points \ {p} :
      Cardinality({ t \in DOMAIN scene.triangles :
                      {p, q} \subseteq Range(scene.triangles[t]) }) >= 2 }

\* validTiles: points with at least three valid triangles.
ValidTiles(scene) ==
  { p \in DOMAIN scene.points : Len(TrianglesOfPoint(scene, p)) >= 3 }

\* "Determine water tiles": valid non-land neighbours of land tiles.
WaterTiles(scene, landTiles) ==
  { q \in ValidTiles(scene) \ landTiles :
      \E p \in landTiles : q \in NeighborsOfPoint(scene, p) }

\* voronoiEdges: pairs i < j of triangles sharing a side.
VoronoiEdges(scene) ==
  LET T == Len(scene.triangles)
      pairs == AsTuple([k \in 1..(T * T) |-> << ((k - 1) \div T) + 1, ((k - 1) % T) + 1 >>])
  IN Filter(pairs, AsTuple([k \in 1..(T * T) |->
       /\ pairs[k][1] < pairs[k][2]
       /\ Cardinality(Range(scene.triangles[pairs[k][1]])
                        \cap Range(scene.triangles[pairs[k][2]])) = 2]))

\* Three times the centroid of a triangle (every position is scaled by 3).
Centroid3(scene, t) ==
  LET tri == scene.triangles[t]
  IN << scene.points[tri[1]][1] + scene.points[tri[2]][1] + scene.points[tri[3]][1],
        scene.points[tri[1]][2] + scene.points[tri[2]][2] + scene.points[tri[3]][2] >>

\* The value generateMapData hands to the bridge for a land set: the game
\* tiles (land, then water) with the triangles around each, the blue nodes
\* of those tiles and the green edges between them.
generateMapData(scene, landTiles) ==
  LET waterTiles == WaterTiles(scene, landTiles)
      n == Len(scene.points)
      allGameTiles ==
        Filter(AsTuple([p \in 1..n |-> p]), AsTuple([p \in 1..n |-> p \in landTiles]))
          \o Filter(AsTuple([p \in 1..n |-> p]), AsTuple([p \in 1..n |-> p \in waterTiles]))
      relevantBlueNodes ==
        Dedupe(Concat(AsTuple([k \in DOMAIN allGameTiles |->
                                 TrianglesOfPoint(scene, allGameTiles[k])])))
      voronoiEdges == VoronoiEdges(scene)
      green == Filter(voronoiEdges, AsTuple([k \in DOMAIN voronoiEdges |->
                 /\ voronoiEdges[k][1] \in Range(relevantBlueNodes)
                 /\ voronoiEdges[k][2] \in Range(relevantBlueNodes)]))
  IN [tiles |-> AsTuple([k \in DOMAIN allGameTiles |->
                  [id |-> allGameTiles[k],
                   position |-> << 3 * scene.points[allGameTiles[k]][1],
                                   3 * scene.points[allGameTiles[k]][2] >>,
                   blueNodes |-> TrianglesOfPoint(scene, allGameTiles[k]),
                   isLand |-> allGameTiles[k] \in landTiles]]),
      blueNodes |-> AsTuple([k \in DOMAIN relevantBlueNodes |->
                      [id |-> relevantBlueNodes[k],
                       position |-> Centroid3(scene, relevantBlueNodes[k])]]),
      greenEdges |-> AsTuple([k \in DOMAIN green |->
                       [from |-> green[k][1], to |-> green[k][2]]])]

(***************************************************************************)
(* Graph assembly (map/mapgenBridge: convertVizDataToMapData).             *)
(* Positions are integer pairs; only their directions are used.            *)
(***************************************************************************)
\* Order of Math.atan2(dy, dx) over (-PI, PI]: the sector of the direction,
\* then the cross product inside an open half plane.
AngleSector(d) ==
  IF d[2] < 0 THEN 0
  ELSE IF d[2] = 0 /\ d[1] >= 0 THEN 1
  ELSE IF d[2] > 0 THEN 2 ELSE 3

AngleLess(d, e) ==
  \/ AngleSector(d) < AngleSector(e)
  \/ /\ AngleSector(d) = AngleSector(e)
     /\ AngleSector(d) \in {0, 2}
     /\ d[1] * e[2] - e[1] * d[2] > 0

\* Array.prototype.sort((a, b) => a.angle - b.angle), stable.
RECURSIVE SortByAngleFrom(_, _)
SortByAngleFrom(rest, sorted) ==
  IF rest = << >> THEN sorted
  ELSE With(Cardinality({ i \in DOMAIN sorted :
                            ~AngleLess(Head(rest).angle, sorted[i].angle) }), LAMBDA k :
         With(SubSeq(sorted, 1, k) \o << Head(rest) >> \o SubSeq(sorted, k + 1, Len(sorted)),
              LAMBDA inserted :
                With(Tail(rest), LAMBDA others : SortByAngleFrom(others, inserted))))

SortByAngle(s) == SortByAngleFrom(s, << >>)

\* The first edge (edges.find) that joins current to a node of remaining.
NextEdgeIndex(edges, current, remaining) ==
  LET hits == { i \in DOMAIN edges :
                  \/ edges[i].nodeA = current /\ edges[i].nodeB \in remaining
                  \/ edges[i].nodeB = current /\ edges[i].nodeA \in remaining }
  IN IF hits = {} THEN 0 ELSE CHOOSE i \in hits : \A j \in hits : i <= j

\* One round of the walk: the node at the other end of that edge, or NoId
\* when no edge leads on.
NextNode(edges, current, remaining) ==
  With(NextEdgeIndex(edges, current, remaining), LAMBDA i :
    IF i = 0 THEN NoId
    ELSE IF edges[i].nodeA = current THEN edges[i].nodeB ELSE edges[i].nodeA)

\* The perimeter walk: follow edges to unvisited nodes; when no edge leads on,
\* append what is left in its original order.  walk = << current, ordered >>.
RECURSIVE WalkPerimeter(_, _, _)
WalkPerimeter(edges, original, walk) ==
  IF Range(original) \subseteq Range(walk[2]) THEN walk[2]
  ELSE With(NextNode(edges, walk[1], Range(original) \ Range(walk[2])), LAMBDA nextNode :
         IF nextNode = NoId
           THEN walk[2] \o Filter(original, AsTuple([k \in DOMAIN original |->
                                                      original[k] \notin Range(walk[2])]))
           ELSE WalkPerimeter(edges, original, << nextNode, Append(walk[2], nextNode) >>))

\* edges.find(e => e joins nodeA and nodeB): index of the first such edge or 0.
FindEdgeIndex(edges, nodeA, nodeB) ==
  LET hits == { i \in DOMAIN edges :
                  SamePair(<<edges[i].nodeA, edges[i].nodeB>>, <<nodeA, nodeB>>) }
  IN IF hits = {} THEN 0 ELSE CHOOSE i \in hits : \A j \in hits : i <= j

\* Standard deck composition of the bridge (it differs in order from the
\* deck of the hex generator).
BridgeResourceDeck ==
  << "ore", "ore", "ore", "brick", "brick", "brick",
     "wood", "wood", "wood", "wood", "sheep", "sheep", "sheep", "sheep",
     "wheat", "wheat", "wheat", "wheat", "desert" >>

\* "while (shuffled.length < n) shuffled.push(...shuffle(deck))"
RECURSIVE ShuffledDecks(_, _, _, _)
ShuffledDecks(g, deck, n, acc) ==
  IF Len(acc) >= n THEN [rng |-> g, arr |-> acc]
  ELSE With(RngShuffle(g, deck), LAMBDA sh :
         With(acc \o sh.arr, LAMBDA dealt : ShuffledDecks(sh.rng, deck, n, dealt)))

bridgeAssignResourcesAndDice(tiles, g) ==
  With(ShuffledDecks(g, BridgeResourceDeck, Len(tiles), << >>), LAMBDA sr :
    With(ShuffledDecks(sr.rng, DiceNumbers, Len(tiles), << >>), LAMBDA sd :
      AsTuple([idx \in DOMAIN tiles |->
        IF sr.arr[idx] = "desert"
          THEN [tiles[idx] EXCEPT !.resource = "desert", !.diceNumber = 0,
                                  !.robberPresent = TRUE]
          ELSE [tiles[idx] EXCEPT !.resource = sr.arr[idx],
                  !.diceNumber = sd.arr[NonDesertBefore(sr.arr, idx)],
                  !.robberPresent = FALSE]])))

\* A filter that keeps the nodes without a tile.
IsValidNode_UpTo3(node) == Len(node.tiles) <= 3

\* Filter nodes to only valid Catan nodes: 1 to 3 tiles.
IsValidNode(node) == Len(node.tiles) >= 1 /\ Len(node.tiles) <= 3

\* nodeIdMap.get(vizId): the node created for the blue node with that id.
NodeIdOf(blueIds, vizId) == NodeIdBase + IndexOf(blueIds, vizId)

\* The node ids around one land tile, sorted by angle about its position.
SortedNodeIds(blue, blueIds, tileData) ==
  With(Filter(tileData.blueNodes, AsTuple([k \in DOMAIN tileData.blueNodes |->
                                             tileData.blueNodes[k] \in Range(blueIds)])),
       LAMBDA known :
         With(AsTuple([k \in DOMAIN known |->
                [id |-> NodeIdOf(blueIds, known[k]),
                 angle |-> << blue[IndexOf(blueIds, known[k])].position[1]
                                - tileData.position[1],
                              blue[IndexOf(blueIds, known[k])].position[2]
                                - tileData.position[2] >>]]),
              LAMBDA entries :
                With(SortByAngle(entries), LAMBDA sorted :
                  AsTuple([k \in DOMAIN sorted |-> sorted[k].id]))))

\* "Update nodes with their adjacent tiles": every tile that lists the node,
\* in tile order.
NodesWithTiles(blue, sortedNodeIds) ==
  AsTuple([b \in DOMAIN blue |->
    With(IndicesWhere(AsTuple([t \in DOMAIN sortedNodeIds |->
                                 (NodeIdBase + b) \in Range(sortedNodeIds[t])])),
         LAMBDA ts : [id |-> NodeIdBase + b,
                      tiles |-> AsTuple([j \in DOMAIN ts |-> TileIdBase + ts[j]])])])

\* One Edge per green edge whose two ends are valid nodes.
EdgesFromGreen(greenEdges, blueIds, validNodeIds, keptNodes) ==
  With(Filter(greenEdges, AsTuple([g \in DOMAIN greenEdges |->
         /\ greenEdges[g].from \in Range(blueIds)
         /\ greenEdges[g].to \in Range(blueIds)
         /\ NodeIdOf(blueIds, greenEdges[g].from) \in validNodeIds
         /\ NodeIdOf(blueIds, greenEdges[g].to) \in validNodeIds])),
       LAMBDA green :
         AsTuple([k \in DOMAIN green |->
           With(<< NodeIdOf(blueIds, green[k].from), NodeIdOf(blueIds, green[k].to) >>,
                LAMBDA ab :
                  With(IndicesWhere(AsTuple([t \in DOMAIN keptNodes |->
                         ab[1] \in Range(keptNodes[t]) /\ ab[2] \in Range(keptNodes[t])])),
                       LAMBDA common :
                         [id |-> EdgeIdBase + k, nodeA |-> ab[1], nodeB |-> ab[2],
                          tileLeft |-> IF Len(common) >= 1 THEN TileIdBase + common[1]
                                       ELSE NoId,
                          tileRight |-> IF Len(common) >= 2 THEN TileIdBase + common[2]
                                        ELSE NoId,
                          isBoundary |-> Len(common) < 2]))]))

\* "Update tiles with their edge IDs and fix node winding order", for the
\* tile with index t.
FinishTile(t, shape, nodeIds, edges, boundaryNodeIds) ==
  With([id |-> TileIdBase + t, shape |-> shape, resource |-> "wood", diceNumber |-> 0,
        edges |-> << >>, nodes |-> nodeIds, robberPresent |-> FALSE, isBoundary |-> FALSE],
       LAMBDA base :
         IF Len(nodeIds) = 0 THEN base
         ELSE With(WalkPerimeter(edges, nodeIds, << nodeIds[1], << nodeIds[1] >> >>),
                   LAMBDA ordered :
                     With(AsTuple([i \in DOMAIN ordered |->
                            FindEdgeIndex(edges, ordered[i],
                                          ordered[(i % Len(ordered)) + 1])]),
                          LAMBDA found :
                            With(Filter(found, AsTuple([i \in DOMAIN found |->
                                                          found[i] # 0])),
                                 LAMBDA hit :
                                   With(\/ \E i \in DOMAIN hit : edges[hit[i]].isBoundary
                                        \/ \E i \in DOMAIN ordered :
                                             ordered[i] \in boundaryNodeIds,
                                        LAMBDA isBoundary :
                                          [base EXCEPT
                                             !.nodes = ordered,
                                             !.edges = AsTuple([i \in DOMAIN hit |->
                                                                  edges[hit[i]].id]),
                                             !.isBoundary = isBoundary,
                                             !.shape = IF isBoundary THEN @
                                                       ELSE Len(ordered)])))))

AssembleMap(blue, blueIds, land, greenEdges, seed) ==
  With(AsTuple([t \in DOMAIN land |-> SortedNodeIds(blue, blueIds, land[t])]),
       LAMBDA sortedNodeIds :
  With(NodesWithTiles(blue, sortedNodeIds), LAMBDA nodes :
  With(Filter(nodes, AsTuple([b \in DOMAIN nodes |-> IsValidNode(nodes[b])])),
       LAMBDA validNodes :
  With(IdsOf(validNodes), LAMBDA validNodeIds :
  With({ validNodes[i].id : i \in { j \in DOMAIN validNodes : Len(validNodes[j].tiles) < 3 } },
       LAMBDA boundaryNodeIds :
  With(AsTuple([t \in DOMAIN land |->
         Filter(sortedNodeIds[t], AsTuple([k \in DOMAIN sortedNodeIds[t] |->
                                             sortedNodeIds[t][k] \in validNodeIds]))]),
       LAMBDA keptNodes :
  With(EdgesFromGreen(greenEdges, blueIds, validNodeIds, keptNodes), LAMBDA edges :
  With(AsTuple([t \in DOMAIN land |->
         FinishTile(t, Len(sortedNodeIds[t]), keptNodes[t], edges, boundaryNodeIds)]),
       LAMBDA tiles :
    [tiles |-> bridgeAssignResourcesAndDice(tiles, SeededRandom(seed)),
     nodes |-> validNodes,
     edges |-> AsTuple([k \in DOMAIN edges |->
                 [id |-> edges[k].id, nodeA |-> edges[k].nodeA, nodeB |-> edges[k].nodeB,
                  tileLeft |-> edges[k].tileLeft,
                  tileRight |-> edges[k].tileRight]])]))))))))

convertVizDataToMapData(vizData, seed) ==
  With(vizData, LAMBDA viz :
    With(AsTuple([b \in DOMAIN viz.blueNodes |-> viz.blueNodes[b].id]), LAMBDA blueIds :
      With(Filter(viz.tiles, AsTuple([t \in DOMAIN viz.tiles |-> viz.tiles[t].isLand])),
           LAMBDA land : AssembleMap(viz.blueNodes, blueIds, land, viz.greenEdges, seed))))

(***************************************************************************)
(* The irregular generator entry (map/delaunayGenerator, map/mapgenBridge).*)
(* A window is what the bridge finds at run time:                          *)
(*   "undefined"  no window object (Node, the test runner);                *)
(*   "mapgen.js"  the generateMapData of src/mapgen.js, whose result has   *)
(*                no "tiles" entry (or is an {error} object);              *)
(*   "declared"   a generateMapData that returns what the bridge declares. *)
(***************************************************************************)
NoMap == [tiles |-> << >>, nodes |-> << >>, edges |-> << >>]
NoViz == [tiles |-> << >>, blueNodes |-> << >>, greenEdges |-> << >>]
NoTradeState == [players |-> << >>, currentPlayerIdx |-> 0, tradeProposals |-> << >>,
                 allowFuturesTrades |-> FALSE]
NoTradeResult ==
  [op |-> "none", proposalId |-> NoId, playerId |-> NoId, ok |-> FALSE, reason |-> "none",
   newState |-> NoTradeState]

generateMapFromVisualization(window, numTiles, erosionRounds, seed) ==
  IF window.kind = "undefined" THEN [error |-> "Error", map |-> NoMap]
  ELSE IF window.kind = "mapgen.js" THEN [error |-> "TypeError", map |-> NoMap]
  ELSE [error |-> "none",
        map |-> convertVizDataToMapData(
                  generateMapData(Scenes[window.scene], window.landTiles), seed)]

\* Math.max(1, Math.round(count * 0.04))
ErosionRounds(count) ==
  LET r == (count * 4 + 50) \div 100 IN IF r > 1 THEN r ELSE 1

generateDelaunayMap(window, targetTileCount, seed) ==
  generateMapFromVisualization(window, targetTileCount,
                               ErosionRounds(targetTileCount), seed)

(***************************************************************************)
(* generateMap (map/index) as a state machine, and the validateMap entry   *)
(* of the API applied to arbitrary map data.                               *)
(***************************************************************************)
VARIABLES
  pc,            \* position of the generateMap call
  options,       \* its GameOptions
  window,        \* the run-time environment of the bridge
  mapData,       \* the local mapData of generateMap
  error,         \* the error the call ended with
  results,       \* outcomes of the validateMapOrThrow calls made so far
  fallbackCalls, \* arguments of the hex generator calls made in the catch block
  probe,         \* map data handed to validateMap by an API client
  probeState,    \* "none", "loaded" or "validated"
  mutations,     \* corruptions applied to probe
  report,        \* what validateMap gave for probe
  previous,      \* outcome of an earlier generateMap call with the same options
  game,          \* the GameState the client holds
  lastCall,      \* the last call of the game API and how it ended
  calls,         \* game API calls made so far
  regPc,         \* position of a generateMapData call of mapgen.js
  iteration,     \* its regularization loop counter
  fourSided,     \* number of entries of its fourSided list
  regPoints,     \* which array its global points holds
  regTriangles,  \* which triangulation its global triangles holds
  regGraph,      \* what buildVoronoi last built tiles and tileNeighbors from
  mergeScene,    \* which point set and graph the merge step of the round saw
  mergeOut,      \* what merge4SidedTiles returned for it
  shapePc,       \* position of the land-shaping stage of generateMapData
  shapeScene,    \* the points and graph the stage works on
  shapeOptions,  \* mapType, numTiles and erosionRounds of the call
  landTiles,     \* the Set landTiles, in insertion order
  frontier,      \* the frontier array of random growth
  erosionRound,  \* the loop counter of the erosion/accretion rounds
  waterTiles,    \* the Set waterTiles, in insertion order
  tilesToFix,    \* the tiles the repair step collected
  walkPc,        \* position of a convertVizDataToMapData call on given data
  walkViz,       \* the visualization data handed to it
  walkMap,       \* the map data it returned
  tradePc,       \* "idle" or "open": whether a trading client holds a state
  tradeState,    \* the GameState the trading functions are called with
  tradeResult,   \* the last trading call, its arguments and what it returned
  nextTradeId    \* the counter behind generateId('trade')

vars == << pc, options, window, mapData, error, results, fallbackCalls,
           probe, probeState, mutations, report, previous, game, lastCall, calls,
           regPc, iteration, fourSided, regPoints, regTriangles, regGraph,
           mergeScene, mergeOut,
           shapePc, shapeScene, shapeOptions, landTiles, frontier, erosionRound,
           waterTiles, tilesToFix,
           walkPc, walkViz, walkMap, tradePc, tradeState, tradeResult, nextTradeId >>

callVars == << pc, options, window, mapData, error, results, fallbackCalls >>
probeVars == << probe, probeState, mutations, report >>
\* What neither a generateMap call nor a validateMap probe touches.
gameVars == << game, lastCall, calls >>
regVars == << regPc, iteration, fourSided, regPoints, regTriangles, regGraph >>
mergeVars == << mergeScene, mergeOut >>
shapeVars == << shapePc, shapeScene, shapeOptions, landTiles, frontier, erosionRound,
               waterTiles, tilesToFix >>
walkVars == << walkPc, walkViz, walkMap >>
tradeVars == << tradePc, tradeState, tradeResult, nextTradeId >>
otherVars == << previous, game, lastCall, calls,
                regPc, iteration, fourSided, regPoints, regTriangles, regGraph,
                mergeScene, mergeOut,
                shapePc, shapeScene, shapeOptions, landTiles, frontier, erosionRound,
                waterTiles, tilesToFix,
                walkPc, walkViz, walkMap, tradePc, tradeState, tradeResult, nextTradeId >>

\* Corruptions applied to a probe before it is validated.
MaxMutations == 2
\* A corruption touches one of the first MaxIndex records of a list.
MaxIndex == 2

Seeds == {1, 12345}
\* 0 stands for an option that is not set.
TileCounts == {0, 5, 30}
HexTileCounts == TileCounts \cup {37}
ShapeValues == {2, 4, 7}

NoOptions == [mapType |-> "none", seed |-> 0, expandedMapSize |-> 0, delaunayTileCount |-> 0]
NoWindow == [kind |-> "undefined", scene |-> 0, landTiles |-> {}]
NoReport == [threw |-> FALSE, valid |-> FALSE, errors |-> {}]
NoRun == [options |-> NoOptions, pc |-> "none", summary |-> << >>]

\* "x || 30"
OrDefault(x) == IF x = 0 THEN 30 ELSE x

Windows(targetTileCount) ==
  { [kind |-> k, scene |-> 0, landTiles |-> {}] : k \in {"undefined", "mapgen.js"} }
    \cup UNION { { [kind |-> "declared", scene |-> sc, landTiles |-> land] :
                     land \in { l \in { (Scenes[sc].inner \ Scenes[sc].open) \cup o :
                                           o \in SUBSET Scenes[sc].open } :
                                  l # {} /\ Cardinality(l) <= targetTileCount } } :
                 sc \in DOMAIN Scenes }

Init ==
  /\ pc = "idle"
  /\ options = NoOptions
  /\ window = NoWindow
  /\ mapData = NoMap
  /\ error = "none"
  /\ results = << >>
  /\ fallbackCalls = << >>
  /\ probe = NoMap
  /\ probeState = "none"
  /\ mutations = 0
  /\ report = NoReport
  /\ previous = NoRun
  /\ game = [phase |-> "none"]
  /\ lastCall = [action |-> [type |-> "none", playerId |-> 0, nodeId |-> 0, edgeId |-> 0],
                  threw |-> FALSE, intact |-> TRUE, roll |-> 0]
  /\ calls = 0
  /\ regPc = "idle"
  /\ iteration = 0
  /\ fourSided = 0
  /\ regPoints = [round |-> 0, step |-> "none"]
  /\ regTriangles = [of |-> [round |-> 0, step |-> "none"], empty |-> TRUE]
  /\ regGraph = [points |-> [round |-> 0, step |-> "none"],
                  triangles |-> [of |-> [round |-> 0, step |-> "none"], empty |-> TRUE]]
  /\ mergeScene = 0
  /\ mergeOut = [merged |-> FALSE, newPoints |-> << >>, mergeLocations |-> << >>]
  /\ shapePc = "idle"
  /\ shapeScene = 0
  /\ shapeOptions = [mapType |-> "none", numTiles |-> 0, erosionRounds |-> 0, centerTile |-> 0]
  /\ landTiles = << >>
  /\ frontier = << >>
  /\ erosionRound = 0
  /\ waterTiles = << >>
  /\ tilesToFix = << >>
  /\ walkPc = "idle"
  /\ walkViz = NoViz
  /\ walkMap = NoMap
  /\ tradePc = "idle"
  /\ tradeState = NoTradeState
  /\ tradeResult = NoTradeResult
  /\ nextTradeId = 1

Begin(o, w) ==
  /\ pc = "idle"
  /\ probeState = "none"
  /\ options' = o
  /\ window' = w
  /\ results' = << >>
  /\ fallbackCalls' = << >>
  /\ UNCHANGED << probeVars, otherVars >>

\* case 'standard'
GenerateStandard ==
  \E seed \in Seeds :
    /\ Begin([NoOptions EXCEPT !.mapType = "standard", !.seed = seed], NoWindow)
    /\ mapData' = generateStandardCatanMap(seed)
    /\ pc' = "generated"
    /\ error' = "none"

\* case 'expanded-hex'
GenerateExpandedHex ==
  \E seed \in Seeds, size \in HexTileCounts :
    /\ Begin([NoOptions EXCEPT !.mapType = "expanded-hex", !.seed = seed,
                               !.expandedMapSize = size], NoWindow)
    /\ mapData' = generateExpandedHexMap(OrDefault(size), seed)
    /\ pc' = "generated"
    /\ error' = "none"

\* case 'expanded-delaunay': the generator runs before the try block, so
\* what it throws leaves generateMap.
GenerateDelaunay ==
  \E seed \in Seeds, count \in TileCounts :
    \E w \in Windows(OrDefault(count)) :
      \E g \in {generateDelaunayMap(w, OrDefault(count), seed)} :
         /\ Begin([NoOptions EXCEPT !.mapType = "expanded-delaunay", !.seed = seed,
                                    !.delaunayTileCount = count], w)
         /\ mapData' = g.map
         /\ error' = g.error
         /\ pc' = IF g.error = "none" THEN "generated" ELSE "threw"

\* default: throw new Error(`Unknown map type`)
GenerateUnknown ==
  \E seed \in Seeds :
    /\ Begin([NoOptions EXCEPT !.mapType = "unknown", !.seed = seed], NoWindow)
    /\ mapData' = NoMap
    /\ error' = "Error"
    /\ pc' = "threw"

\* A catch block that falls back whatever the map type.
CatchFallsBack_Always(mapType) == TRUE

\* The catch block falls back only for this map type.
CatchFallsBack(mapType) == mapType = "expanded-delaunay"

\* try { validateMapOrThrow(mapData) } catch (error) { ... else throw error }
ValidateGenerated ==
  /\ pc = "generated"
  /\ \E r \in {validateMapOrThrow(mapData)} :
        /\ results' = Append(results, r)
        /\ IF r = "ok"
             THEN pc' = "returned" /\ error' = error
             ELSE IF CatchFallsBack(options.mapType)
                    THEN pc' = "fallback" /\ error' = error
                    ELSE pc' = "threw" /\ error' = r
  /\ UNCHANGED << options, window, mapData, fallbackCalls >>
  /\ UNCHANGED << probeVars, otherVars >>

\* mapData = generateExpandedHexMap(...); validateMapOrThrow(mapData)
FallbackToHex ==
  /\ pc = "fallback"
  /\ \E size \in {OrDefault(options.delaunayTileCount)} :
       \E m \in {generateExpandedHexMap(size, options.seed)} :
         \E r \in {validateMapOrThrow(m)} :
           /\ fallbackCalls' = Append(fallbackCalls, << size, options.seed >>)
           /\ mapData' = m
           /\ results' = Append(results, r)
           /\ pc' = IF r = "ok" THEN "returned" ELSE "threw"
           /\ error' = IF r = "ok" THEN error ELSE r
  /\ UNCHANGED << options, window >>
  /\ UNCHANGED << probeVars, otherVars >>

\* The call is over; the next one starts from scratch.
Finish ==
  /\ pc \in {"returned", "threw"}
  /\ pc' = "idle"
  /\ options' = NoOptions
  /\ window' = NoWindow
  /\ mapData' = NoMap
  /\ error' = "none"
  /\ results' = << >>
  /\ fallbackCalls' = << >>
  /\ UNCHANGED << probeVars, otherVars >>

(***************************************************************************)
(* validateMap as an API entry: a client may hand it any MapData.  Probes  *)
(* start from generated maps and are then corrupted record by record.      *)
(***************************************************************************)
BaseMapNames == {"hex", "islands", "plain"}

BaseMap(name, seed) ==
  IF name = "hex" THEN generateExpandedHexMap(5, seed)
  ELSE IF name = "islands"
         THEN convertVizDataToMapData(generateMapData(Scenes[1], {2, 4}), seed)
         ELSE convertVizDataToMapData(generateMapData(Scenes[1], Scenes[1].inner), seed)

Touchable(list) == { i \in DOMAIN list : i <= MaxIndex }

RemoveAt(list, i) == SubSeq(list, 1, i - 1) \o SubSeq(list, i + 1, Len(list))

\* Ids no record of the map carries.
FreshTileId(m) == TileIdBase + Len(m.tiles) + 1
FreshEdgeId(m) == EdgeIdBase + Len(m.edges) + 1

LoadProbe ==
  /\ pc = "idle"
  /\ probeState = "none"
  /\ \E name \in BaseMapNames, seed \in Seeds : probe' = BaseMap(name, seed)
  /\ probeState' = "loaded"
  /\ mutations' = 0
  /\ report' = NoReport
  /\ UNCHANGED << callVars, otherVars >>

Corrupt(m) ==
  /\ probeState = "loaded"
  /\ mutations < MaxMutations
  /\ probe' = m
  /\ mutations' = mutations + 1
  /\ UNCHANGED << probeState, report >>
  /\ UNCHANGED << callVars, otherVars >>

\* A node lists one more tile: an existing one or one that does not exist.
AddNodeTile ==
  \E i \in Touchable(probe.nodes) :
    \E t \in (IdsOf(probe.tiles) \cup {FreshTileId(probe)}) \ Range(probe.nodes[i].tiles) :
      Corrupt([probe EXCEPT !.nodes[i].tiles = Append(@, t)])

\* A second Edge record for the node pair of an existing edge.
AddDuplicateEdge ==
  \E i \in Touchable(probe.edges), reversed \in BOOLEAN :
    Corrupt([probe EXCEPT !.edges = Append(@,
      [probe.edges[i] EXCEPT
         !.id = FreshEdgeId(probe),
         !.nodeA = IF reversed THEN probe.edges[i].nodeB ELSE probe.edges[i].nodeA,
         !.nodeB = IF reversed THEN probe.edges[i].nodeA ELSE probe.edges[i].nodeB])])

\* An edge whose two endpoints are the same node.
MakeSelfLoop ==
  \E i \in Touchable(probe.edges) :
    Corrupt([probe EXCEPT !.edges[i].nodeB = probe.edges[i].nodeA])

SetTileShape ==
  \E i \in Touchable(probe.tiles), shape \in ShapeValues :
    /\ probe.tiles[i].shape # shape
    /\ Corrupt([probe EXCEPT !.tiles[i].shape = shape])

\* A second Tile record with the id of an existing one.
AddDuplicateTile ==
  \E i \in Touchable(probe.tiles) :
    Corrupt([probe EXCEPT !.tiles = Append(@, probe.tiles[i])])

\* A node record disappears; tiles and edges keep naming it.
RemoveNode ==
  \E i \in Touchable(probe.nodes) :
    Corrupt([probe EXCEPT !.nodes = RemoveAt(@, i)])

\* validateMap(probe)
ValidateProbe ==
  /\ probeState = "loaded"
  /\ report' = validateMap(probe)
  /\ probeState' = "validated"
  /\ UNCHANGED << probe, mutations >>
  /\ UNCHANGED << callVars, otherVars >>

DropProbe ==
  /\ probeState = "validated"
  /\ probe' = NoMap
  /\ probeState' = "none"
  /\ mutations' = 0
  /\ report' = NoReport
  /\ UNCHANGED << callVars, otherVars >>

Next ==
  \/ GenerateStandard
  \/ GenerateExpandedHex
  \/ GenerateDelaunay
  \/ GenerateUnknown
  \/ ValidateGenerated
  \/ FallbackToHex
  \/ Finish
  \/ LoadProbe
  \/ AddNodeTile
  \/ AddDuplicateEdge
  \/ MakeSelfLoop
  \/ SetTileShape
  \/ AddDuplicateTile
  \/ RemoveNode
  \/ ValidateProbe
  \/ DropProbe

Spec == Init /\ [][Next]_vars

(***************************************************************************)
(* Two generateMap calls with the same options.  The first call is one of  *)
(* the calls above; the caller keeps what it gave and calls again.         *)
(***************************************************************************)
\* Scenes considered for a pair of calls.
RerunScenes == {1}

Distribution(tiles, Field(_)) ==
  [v \in { Field(tiles[t]) : t \in DOMAIN tiles } |->
     Cardinality({ t \in DOMAIN tiles : Field(tiles[t]) = v })]

\* Tile, node and edge counts with the resource and shape distributions.
Summary(m) ==
  << Len(m.tiles), Len(m.nodes), Len(m.edges),
     Distribution(m.tiles, LAMBDA t : t.resource),
     Distribution(m.tiles, LAMBDA t : t.shape) >>

\* The switch of generateMap: the map it assigns or the error it lets out.
Switch(o, w) ==
  CASE o.mapType = "standard" ->
         [error |-> "none", map |-> generateStandardCatanMap(o.seed)]
    [] o.mapType = "expanded-hex" ->
         [error |-> "none", map |-> generateExpandedHexMap(OrDefault(o.expandedMapSize), o.seed)]
    [] o.mapType = "expanded-delaunay" ->
         generateDelaunayMap(w, OrDefault(o.delaunayTileCount), o.seed)
    [] OTHER -> [error |-> "Error", map |-> NoMap]

RerunWindows(o) ==
  IF o.mapType = "expanded-delaunay"
    THEN { w \in Windows(OrDefault(o.delaunayTileCount)) : w.scene \in RerunScenes \cup {0} }
    ELSE {NoWindow}

\* The first call is over; its outcome is kept for comparison.
Remember ==
  /\ pc \in {"returned", "threw"}
  /\ previous = NoRun
  /\ window.scene \in RerunScenes \cup {0}
  /\ previous' = [options |-> options, pc |-> pc,
                  summary |-> IF pc = "returned" THEN Summary(mapData) ELSE << >>]
  /\ pc' = "again"
  /\ UNCHANGED << options, window, mapData, error, results, fallbackCalls >>
  /\ UNCHANGED << probeVars, gameVars, regVars, mergeVars, shapeVars, walkVars, tradeVars >>

\* The second call: same options, whatever the environment gives this time.
Rerun ==
  /\ pc = "again"
  /\ \E w \in RerunWindows(previous.options) :
       \E g \in {Switch(previous.options, w)} :
         /\ options' = previous.options
         /\ window' = w
         /\ mapData' = g.map
         /\ error' = g.error
         /\ pc' = IF g.error = "none" THEN "generated" ELSE "threw"
         /\ results' = << >>
         /\ fallbackCalls' = << >>
  /\ UNCHANGED << probeVars, otherVars >>

NextRuns ==
  \/ GenerateStandard
  \/ GenerateExpandedHex
  \/ GenerateDelaunay
  \/ GenerateUnknown
  \/ ValidateGenerated
  \/ FallbackToHex
  \/ Remember
  \/ Rerun

SpecRuns == Init /\ [][NextRuns]_vars

(***************************************************************************)
(* Game state and actions (core/game, core/robber).  Player, tile, node    *)
(* and edge ids are integers, NoId stands for null.  A state is a record   *)
(* of plain values, which JSON.parse(JSON.stringify(state)) reproduces.    *)
(***************************************************************************)
ResourceNames == {"ore", "sheep", "wood", "brick", "wheat", "desert"}

NoResources == [r \in ResourceNames |-> 0]

\* BUILDING_COSTS
BuildingCosts ==
  [road |-> [r \in ResourceNames |-> IF r \in {"brick", "wood"} THEN 1 ELSE 0],
   settlement |-> [r \in ResourceNames |->
                     IF r \in {"brick", "wood", "sheep", "wheat"} THEN 1 ELSE 0],
   city |-> [r \in ResourceNames |-> IF r = "wheat" THEN 2 ELSE IF r = "ore" THEN 3 ELSE 0],
   developmentCard |-> [r \in ResourceNames |->
                          IF r \in {"sheep", "wheat", "ore"} THEN 1 ELSE 0]]

NoOccupant == [playerId |-> NoId, type |-> "none"]

NoGame == [phase |-> "none"]

\* Position of the first element with the given id, 0 when there is none
\* (Array.prototype.find).
FindById(objs, id) ==
  IF \E i \in DOMAIN objs : objs[i].id = id
    THEN CHOOSE i \in DOMAIN objs : objs[i].id = id /\ \A j \in 1..(i - 1) : objs[j].id # id
    ELSE 0

NewPlayer(id) ==
  [id |-> id, resources |-> NoResources, roads |-> << >>, settlements |-> << >>,
   cities |-> << >>, knights |-> << >>, victoryPoints |-> 0, armySize |-> 0]

\* createGame: "threw" for a bad player count or when generateMap throws.
createGame(playerCount, generated, enhancedKnights) ==
  IF playerCount < 2 \/ playerCount > 6 \/ generated.error # "none"
    THEN [threw |-> TRUE, state |-> NoGame]
    ELSE
      LET m == generated.map
          deserts == { t \in DOMAIN m.tiles : m.tiles[t].resource = "desert" }
          desertTile == IF deserts = {} THEN 0
                        ELSE CHOOSE t \in deserts : \A u \in deserts : t <= u
      IN [threw |-> FALSE,
          state |->
            [phase |-> "setup",
             setupPhase |-> [present |-> TRUE, round |-> 0, settlementsPlaced |-> 0],
             players |-> [i \in 1..playerCount |-> NewPlayer(i)],
             turnOrder |-> [i \in 1..playerCount |-> i],
             currentPlayerIdx |-> 0,
             tiles |-> m.tiles,
             nodes |-> [n \in DOMAIN m.nodes |->
                          [id |-> m.nodes[n].id, tiles |-> m.nodes[n].tiles,
                           occupant |-> NoOccupant]],
             edges |-> [e \in DOMAIN m.edges |->
                          [id |-> m.edges[e].id, nodeA |-> m.edges[e].nodeA,
                           nodeB |-> m.edges[e].nodeB, roadOwner |-> NoId]],
             knights |-> << >>,
             diceHistory |-> << >>,
             robberTileId |-> IF desertTile # 0 THEN m.tiles[desertTile].id
                              ELSE m.tiles[1].id,
             largestArmyOwner |-> NoId,
             enhancedKnights |-> enhancedKnights]]

\* Neighbours looked up from one end of the edges only.
getAdjacentNodes_OneWay(nodeId, edges) ==
  { edges[e].nodeB : e \in { i \in DOMAIN edges : edges[i].nodeA = nodeId } }

\* getAdjacentNodes of map/validator.
getAdjacentNodes(nodeId, edges) ==
  { edges[e].nodeB : e \in { i \in DOMAIN edges : edges[i].nodeA = nodeId } }
    \cup { edges[e].nodeA : e \in { i \in DOMAIN edges :
                                      edges[i].nodeA # nodeId /\ edges[i].nodeB = nodeId } }

hasResources(player, cost) == \A r \in ResourceNames : player.resources[r] >= cost[r]

deductResources(player, cost) ==
  [player EXCEPT !.resources = [r \in ResourceNames |-> player.resources[r] - cost[r]]]

Occupied(state, nodeId) ==
  /\ FindById(state.nodes, nodeId) # 0
  /\ state.nodes[FindById(state.nodes, nodeId)].occupant # NoOccupant

validatePlaceSettlement(state, player, nodeId) ==
  IF FindById(state.nodes, nodeId) = 0 THEN "Node not found"
  ELSE IF Occupied(state, nodeId) THEN "Node already occupied"
  ELSE IF \E adjId \in getAdjacentNodes(nodeId, state.edges) : Occupied(state, adjId)
    THEN "Too close to another settlement"
  ELSE IF state.phase = "main"
            /\ ~\E e \in DOMAIN state.edges :
                   /\ state.edges[e].nodeA = nodeId \/ state.edges[e].nodeB = nodeId
                   /\ state.edges[e].roadOwner = player.id
    THEN "Must be connected to your road"
  ELSE IF state.phase = "main" /\ ~hasResources(player, BuildingCosts.settlement)
    THEN "Insufficient resources"
  ELSE "ok"

\* nodeAHasConnection / nodeBHasConnection of validatePlaceRoad.
HasConnection(state, player, edgeId, nodeId) ==
  \/ /\ FindById(state.nodes, nodeId) # 0
     /\ state.nodes[FindById(state.nodes, nodeId)].occupant.playerId = player.id
  \/ \E e \in DOMAIN state.edges :
       /\ state.edges[e].id # edgeId
       /\ state.edges[e].nodeA = nodeId \/ state.edges[e].nodeB = nodeId
       /\ state.edges[e].roadOwner = player.id

validatePlaceRoad(state, player, edgeId) ==
  IF FindById(state.edges, edgeId) = 0 THEN "Edge not found"
  ELSE LET edge == state.edges[FindById(state.edges, edgeId)] IN
    IF edge.roadOwner # NoId THEN "Road already placed here"
    ELSE IF (state.phase = "main" \/ Len(player.roads) > 0)
              /\ ~HasConnection(state, player, edgeId, edge.nodeA)
              /\ ~HasConnection(state, player, edgeId, edge.nodeB)
      THEN "Road must connect to your network"
    ELSE IF state.phase = "main" /\ ~hasResources(player, BuildingCosts.road)
      THEN "Insufficient resources"
    ELSE "ok"

validateUpgradeToCity(state, player, nodeId) ==
  IF FindById(state.nodes, nodeId) = 0 THEN "Node not found"
  ELSE LET node == state.nodes[FindById(state.nodes, nodeId)] IN
    IF node.occupant = NoOccupant \/ node.occupant.playerId # player.id
      THEN "You do not own this settlement"
    ELSE IF node.occupant.type # "settlement" THEN "Already a city"
    ELSE IF ~hasResources(player, BuildingCosts.city) THEN "Insufficient resources"
    ELSE "ok"

validateBuyDevelopmentCard(state, player) ==
  IF ~hasResources(player, BuildingCosts.developmentCard)
    THEN "Insufficient resources" ELSE "ok"

\* An action is [type, playerId, nodeId, edgeId].
validateAction(state, action) ==
  IF FindById(state.players, action.playerId) = 0 THEN "Player not found"
  ELSE LET player == state.players[FindById(state.players, action.playerId)] IN
    CASE action.type = "placeSettlement" ->
           validatePlaceSettlement(state, player, action.nodeId)
      [] action.type = "placeRoad" -> validatePlaceRoad(state, player, action.edgeId)
      [] action.type = "upgradeToCity" -> validateUpgradeToCity(state, player, action.nodeId)
      [] action.type = "buyDevelopmentCard" -> validateBuyDevelopmentCard(state, player)
      [] OTHER -> "Unknown action type"

\* A clone that shares its objects with the original.
Clone_Shared(state) == [value |-> state, shared |-> TRUE]

\* JSON.parse(JSON.stringify(state)): an equal value in objects of its own.
Clone(state) == [value |-> state, shared |-> FALSE]

\* What a call gives: whether it threw, the state it returned, and the
\* caller's state object as the call left it (work is what the call wrote
\* into its working copy).
Outcome(threw, state, clone, input, work) ==
  [threw |-> threw, state |-> state, input |-> IF clone.shared THEN work ELSE input]

\* Resources a settlement placed in the second setup round brings: one per
\* entry of node.tiles whose tile exists and is no desert.
SetupGain(state, node, r) ==
  Cardinality({ k \in DOMAIN node.tiles :
                  /\ FindById(state.tiles, node.tiles[k]) # 0
                  /\ state.tiles[FindById(state.tiles, node.tiles[k])].resource = r
                  /\ r # "desert" })

Reverse(s) == [i \in DOMAIN s |-> s[Len(s) + 1 - i]]

\* case 'endTurn' of applyAction.
EndTurnStep(st) ==
  LET total == Len(st.players)
      advanced == [st EXCEPT !.currentPlayerIdx = (st.currentPlayerIdx + 1) % total]
  IN IF st.phase # "setup" THEN advanced
     ELSE LET counted == [advanced EXCEPT !.setupPhase.settlementsPlaced = @ + 1] IN
       IF counted.setupPhase.settlementsPlaced = total
         THEN [counted EXCEPT !.setupPhase.round = 1, !.turnOrder = Reverse(@),
                              !.currentPlayerIdx = 0]
       ELSE IF counted.setupPhase.settlementsPlaced = total * 2
         THEN [counted EXCEPT !.phase = "main", !.turnOrder = Reverse(@),
                              !.currentPlayerIdx = 0,
                              !.setupPhase = [present |-> FALSE, round |-> 0,
                                              settlementsPlaced |-> 0]]
       ELSE counted

\* The switch of applyAction on the cloned state.
ApplyStep(st, action) ==
  LET pi == FindById(st.players, action.playerId)
      player == st.players[pi]
  IN CASE action.type = "placeSettlement" ->
            LET ni == FindById(st.nodes, action.nodeId)
                paid == IF st.phase = "main"
                          THEN deductResources(player, BuildingCosts.settlement)
                          ELSE player
                gifted == IF st.phase = "setup" /\ st.setupPhase.round = 1
                            THEN [paid EXCEPT !.resources =
                                    [r \in ResourceNames |->
                                       paid.resources[r] + SetupGain(st, st.nodes[ni], r)]]
                            ELSE paid
            IN [st EXCEPT
                  !.nodes[ni].occupant = [playerId |-> player.id, type |-> "settlement"],
                  !.players[pi] = [gifted EXCEPT
                                     !.settlements = Append(@, action.nodeId),
                                     !.victoryPoints = @ + 1]]
       [] action.type = "placeRoad" ->
            LET ei == FindById(st.edges, action.edgeId)
                paid == IF st.phase = "main"
                          THEN deductResources(player, BuildingCosts.road)
                          ELSE player
            IN [st EXCEPT !.edges[ei].roadOwner = player.id,
                          !.players[pi] = [paid EXCEPT !.roads = Append(@, action.edgeId)]]
       [] action.type = "upgradeToCity" ->
            LET ni == FindById(st.nodes, action.nodeId)
                paid == deductResources(player, BuildingCosts.city)
                kept == IndicesWhere([k \in DOMAIN player.settlements |->
                          k # (CHOOSE j \in DOMAIN player.settlements :
                                 /\ player.settlements[j] = action.nodeId
                                 /\ \A i \in 1..(j - 1) : player.settlements[i] # action.nodeId)])
            IN [st EXCEPT
                  !.nodes[ni].occupant.type = "city",
                  !.players[pi] =
                     [paid EXCEPT
                        !.cities = Append(@, action.nodeId),
                        !.settlements =
                           IF action.nodeId \in Range(player.settlements)
                             THEN [k \in DOMAIN kept |-> player.settlements[kept[k]]]
                             ELSE player.settlements,
                        !.victoryPoints = @ + 1]]
       [] action.type = "endTurn" -> EndTurnStep(st)
       [] OTHER -> st

applyAction(state, action) ==
  IF validateAction(state, action) # "ok"
    THEN [threw |-> TRUE, state |-> NoGame, input |-> state]
    ELSE LET clone == Clone(state)
             newState == ApplyStep(clone.value, action)
         IN Outcome(FALSE, newState, clone, state, newState)

\* Whether the building on the node keeps the player from collecting
\* (enhanced mode): an active knight of another player on that node.
BlockedAt(st, nodeId, playerId) ==
  /\ st.enhancedKnights
  /\ \E k \in DOMAIN st.knights :
       /\ st.knights[k].nodeId = nodeId
       /\ st.knights[k].ownerId # playerId
       /\ st.knights[k].active

\* The (tile, entry of tile.nodes) pairs that grant the player something.
Grants(st, diceRoll, playerId, r, type) ==
  { << t, k >> \in { << t2, k2 >> \in (DOMAIN st.tiles) \X (1..7) :
                       k2 \in DOMAIN st.tiles[t2].nodes } :
      /\ st.tiles[t].diceNumber = diceRoll
      /\ ~st.tiles[t].robberPresent
      /\ st.tiles[t].resource = r
      /\ Occupied(st, st.tiles[t].nodes[k])
      /\ LET node == st.nodes[FindById(st.nodes, st.tiles[t].nodes[k])] IN
           /\ node.occupant.playerId = playerId
           /\ (node.occupant.type = "city") = (type = "city")
           /\ ~BlockedAt(st, node.id, playerId) }

collectResources(state, diceRoll) ==
  LET clone == Clone(state)
      st == clone.value
      newState ==
        [st EXCEPT
           !.players = [p \in DOMAIN st.players |->
              [st.players[p] EXCEPT !.resources = [r \in ResourceNames |->
                 st.players[p].resources[r]
                   + Cardinality(Grants(st, diceRoll, st.players[p].id, r, "settlement"))
                   + 2 * Cardinality(Grants(st, diceRoll, st.players[p].id, r, "city"))]]],
           !.diceHistory = Append(@, diceRoll)]
  IN Outcome(FALSE, newState, clone, state, newState)

\* moveRobber; stolen is the resource Math.random picks from the victim's
\* hand ("none" when nothing is stolen).
moveRobber(state, playerId, targetTileId, stealFromPlayerId, stolen) ==
  LET clone == Clone(state)
      st == clone.value
      ci == IF st.robberTileId # NoId THEN FindById(st.tiles, st.robberTileId) ELSE 0
      lifted == IF ci # 0 THEN [st EXCEPT !.tiles[ci].robberPresent = FALSE] ELSE st
      ti == FindById(lifted.tiles, targetTileId)
  IN IF ti = 0 THEN Outcome(TRUE, NoGame, clone, state, lifted)
     ELSE LET placed == [lifted EXCEPT !.tiles[ti].robberPresent = TRUE,
                                       !.robberTileId = targetTileId]
              vi == FindById(placed.players, stealFromPlayerId)
              hi == FindById(placed.players, playerId)
              robbed == IF stealFromPlayerId # NoId /\ vi # 0 /\ hi # 0 /\ stolen # "none"
                          THEN [[placed EXCEPT !.players[vi].resources[stolen] = @ - 1]
                                  EXCEPT !.players[hi].resources[stolen] = @ + 1]
                          ELSE placed
          IN Outcome(FALSE, robbed, clone, state, robbed)

\* The resources moveRobber may pick for a steal.
Stealable(state, playerId, stealFromPlayerId) ==
  IF /\ stealFromPlayerId # NoId
     /\ FindById(state.players, stealFromPlayerId) # 0
     /\ FindById(state.players, playerId) # 0
     /\ \E r \in ResourceNames :
          state.players[FindById(state.players, stealFromPlayerId)].resources[r] > 0
    THEN { r \in ResourceNames :
             state.players[FindById(state.players, stealFromPlayerId)].resources[r] > 0 }
    ELSE {"none"}

\* The loop of updateLargestArmy over the first n players: size and owner.
RECURSIVE LargestArmy(_, _)
LargestArmy(st, n) ==
  IF n = 0 THEN [size |-> 2, owner |-> NoId]
  ELSE LET sofar == LargestArmy(st, n - 1)
           player == st.players[n]
       IN IF player.armySize > sofar.size
            THEN [size |-> player.armySize, owner |-> player.id]
          ELSE IF player.armySize = sofar.size /\ sofar.size >= 3
                    /\ st.largestArmyOwner = player.id
            THEN [sofar EXCEPT !.owner = player.id]
          ELSE sofar

updateLargestArmy(st) ==
  LET largestOwner == LargestArmy(st, Len(st.players)).owner
      prev == FindById(st.players, st.largestArmyOwner)
      taken == IF st.largestArmyOwner # NoId /\ prev # 0
                 THEN [st EXCEPT !.players[prev].victoryPoints = @ - 2] ELSE st
      new == FindById(taken.players, largestOwner)
      given == IF largestOwner # NoId /\ new # 0
                 THEN [taken EXCEPT !.players[new].victoryPoints = @ + 2] ELSE taken
  IN IF largestOwner # st.largestArmyOwner
       THEN [given EXCEPT !.largestArmyOwner = largestOwner]
       ELSE st

KnightIdBase == 2000

\* playKnight.  player is looked up in the first clone, and newState is then
\* replaced by what moveRobber returns (a clone of its own): the knight is
\* pushed on the returned state, while player.knights and player.armySize
\* are written to the first clone, which is dropped.
playKnight(state, playerId, nodeId, newRobberTileId, stealFromPlayerId, stolen) ==
  LET clone == Clone(state)
      st == clone.value
  IN IF FindById(st.players, playerId) = 0 THEN Outcome(TRUE, NoGame, clone, state, st)
     ELSE LET moved == moveRobber(st, playerId, newRobberTileId, stealFromPlayerId, stolen)
              pi == FindById(st.players, playerId)
              knightId == KnightIdBase + Len(st.knights) + 1
              dropped == [[st EXCEPT !.players[pi].armySize = @ + 1]
                            EXCEPT !.players[pi].knights =
                                     IF state.enhancedKnights THEN Append(@, knightId) ELSE @]
          IN IF moved.threw THEN Outcome(TRUE, NoGame, clone, state, moved.input)
             ELSE LET knighted ==
                        IF state.enhancedKnights
                          THEN [moved.state EXCEPT !.knights =
                                  Append(@, [id |-> knightId, ownerId |-> playerId,
                                             nodeId |-> nodeId, active |-> TRUE])]
                          ELSE moved.state
                  IN Outcome(FALSE, updateLargestArmy(knighted), clone, state, dropped)

\* generateMap of map/index as one call: the switch, the catch block with
\* its fallback, and the validation of what is returned.
generateMap(o, w) ==
  With(Switch(o, w), LAMBDA g :
    IF g.error # "none" THEN g
    ELSE With(validateMapOrThrow(g.map), LAMBDA r :
      IF r = "ok" THEN g
      ELSE IF CatchFallsBack(o.mapType)
        THEN With(generateExpandedHexMap(OrDefault(o.delaunayTileCount), o.seed), LAMBDA m :
               With(validateMapOrThrow(m), LAMBDA r2 :
                 IF r2 = "ok" THEN [error |-> "none", map |-> m]
                 ELSE [error |-> r2, map |-> NoMap]))
        ELSE [error |-> r, map |-> NoMap]))

(***************************************************************************)
(* A client of the game API: it creates one game and then keeps calling    *)
(* applyAction, collectResources, moveRobber and playKnight on the state   *)
(* it holds, replacing it by what a call returns.  It catches nothing: a   *)
(* call that throws is its last one (the state it holds is then the one it *)
(* passed in, so no game state is lost by stopping there).                 *)
(***************************************************************************)
\* Game API calls in one behaviour.
MaxCalls == 4

\* Nodes and edges of the first tile that actions are aimed at.
MaxSpot == 3

PlayerCounts == {1, 2}

\* The options and environments games are created with: the one-tile hex
\* grid, the standard board, and a two-tile irregular map.
GameSetups ==
  { [options |-> [NoOptions EXCEPT !.mapType = "expanded-hex", !.seed = 1,
                                   !.expandedMapSize = 5],
     window |-> NoWindow],
    [options |-> [NoOptions EXCEPT !.mapType = "standard", !.seed = 1],
     window |-> NoWindow],
    [options |-> [NoOptions EXCEPT !.mapType = "expanded-delaunay", !.seed = 1,
                                          !.delaunayTileCount = 5],
     window |-> [kind |-> "declared", scene |-> 3, landTiles |-> {5, 6}]] }

Action(type, playerId, nodeId, edgeId) ==
  [type |-> type, playerId |-> playerId, nodeId |-> nodeId, edgeId |-> edgeId]

NoCall == [action |-> Action("none", NoId, NoId, NoId), threw |-> FALSE, intact |-> TRUE,
           roll |-> 0]

\* The client keeps the state a call returned; after a throw it still has
\* the object it passed in.
Called(action, out, roll) ==
  /\ game' = IF out.threw THEN out.input ELSE out.state
  /\ lastCall' = [action |-> action, threw |-> out.threw, intact |-> (out.input = game),
                  roll |-> roll]
  /\ calls' = calls + 1
  /\ UNCHANGED << callVars, probeVars, previous, regVars, mergeVars, shapeVars,
                      walkVars, tradeVars >>

CreateGame ==
  /\ game = NoGame
  /\ ~lastCall.threw
  /\ calls < MaxCalls
  /\ \E setup \in GameSetups, playerCount \in PlayerCounts, enhancedKnights \in BOOLEAN :
       \E out \in {createGame(playerCount, generateMap(setup.options, setup.window),
                              enhancedKnights)} :
         /\ game' = out.state
         /\ lastCall' = [action |-> Action("createGame", NoId, NoId, NoId),
                         threw |-> out.threw, intact |-> TRUE, roll |-> 0]
         /\ calls' = calls + 1
         /\ UNCHANGED << callVars, probeVars, previous, regVars, mergeVars, shapeVars,
                      walkVars, tradeVars >>

InGame == game # NoGame /\ ~lastCall.threw /\ calls < MaxCalls

\* Ids a client passes: those of the players and one nobody has.
PlayerIds == 1..3

\* The players that build and play knights.
Actors == 1..2

SpotNodes == { game.tiles[1].nodes[k] : k \in 1..MaxSpot } \cup {NoId}

SpotEdges == { game.tiles[1].edges[k] : k \in 1..MaxSpot } \cup {NoId}

SpotTiles == { game.tiles[t].id : t \in DOMAIN game.tiles } \cup {NoId}

\* Dice rolls: the numbers on the tiles and one that is on none.
Rolls == ({ game.tiles[t].diceNumber : t \in DOMAIN game.tiles } \ {0}) \cup {7}

ApplyPlaceSettlement ==
  /\ InGame
  /\ \E playerId \in Actors, nodeId \in SpotNodes :
       \E action \in {Action("placeSettlement", playerId, nodeId, NoId)} :
         \E out \in {applyAction(game, action)} : Called(action, out, 0)

ApplyPlaceRoad ==
  /\ InGame
  /\ \E playerId \in Actors, edgeId \in SpotEdges :
       \E action \in {Action("placeRoad", playerId, NoId, edgeId)} :
         \E out \in {applyAction(game, action)} : Called(action, out, 0)

ApplyUpgradeToCity ==
  /\ InGame
  /\ \E playerId \in Actors, nodeId \in SpotNodes :
       \E action \in {Action("upgradeToCity", playerId, nodeId, NoId)} :
         \E out \in {applyAction(game, action)} : Called(action, out, 0)

ApplyBuyDevelopmentCard ==
  /\ InGame
  /\ \E playerId \in PlayerIds :
       \E action \in {Action("buyDevelopmentCard", playerId, NoId, NoId)} :
         \E out \in {applyAction(game, action)} : Called(action, out, 0)

ApplyEndTurn ==
  /\ InGame
  /\ \E playerId \in PlayerIds :
       \E action \in {Action("endTurn", playerId, NoId, NoId)} :
         \E out \in {applyAction(game, action)} : Called(action, out, 0)

CollectResources ==
  /\ InGame
  /\ \E roll \in Rolls :
       \E out \in {collectResources(game, roll)} :
         Called(Action("collectResources", NoId, NoId, NoId), out, roll)

\* Whom the second player, moving the robber, steals from: nobody, or the
\* first player.
Victims == {NoId, 1}

MoveRobber ==
  /\ InGame
  /\ \E playerId \in {2}, targetTileId \in SpotTiles, stealFromPlayerId \in Victims :
       \E stolen \in Stealable(game, playerId, stealFromPlayerId) :
         \E out \in {moveRobber(game, playerId, targetTileId, stealFromPlayerId, stolen)} :
           Called(Action("moveRobber", playerId, NoId, NoId), out, 0)

PlayKnight ==
  /\ InGame
  /\ \E playerId \in Actors, nodeId \in SpotNodes \ {NoId}, newRobberTileId \in SpotTiles,
        stealFromPlayerId \in {NoId} :
       \E stolen \in Stealable(game, playerId, stealFromPlayerId) :
         \E out \in {playKnight(game, playerId, nodeId, newRobberTileId,
                                stealFromPlayerId, stolen)} :
           Called(Action("playKnight", playerId, nodeId, NoId), out, 0)

NextGame ==
  \/ CreateGame
  \/ ApplyPlaceSettlement
  \/ ApplyPlaceRoad
  \/ ApplyUpgradeToCity
  \/ ApplyBuyDevelopmentCard
  \/ ApplyEndTurn
  \/ CollectResources
  \/ MoveRobber
  \/ PlayKnight

SpecGame == Init /\ [][NextGame]_vars

(***************************************************************************)
(* The dual graph and the merge step of mapgen.js on concrete point sets.  *)
(* A scene holds a point array (positions in half pixels), the triangles   *)
(* delaunay returns for it and the triangles isTriangleValid accepts.      *)
(* Point and triangle indices start at 1.                                  *)
(***************************************************************************)
RegScenes ==
  <<
  [ points |-> << <<8, -12>>, <<96, -8>>, <<180, 16>>, <<264, 16>>, <<332, 28>>, <<404, -28>>, <<64, 70>>, <<140, 54>>, <<212, 42>>, <<308, 50>>, <<336, 62>>, <<440, 94>>, <<-16, 136>>, <<84, 116>>, <<168, 124>>, <<212, 156>>, <<304, 136>>, <<388, 120>>, <<68, 234>>, <<140, 206>>, <<180, 230>>, <<300, 186>>, <<340, 218>>, <<448, 210>>, <<-20, 260>>, <<52, 304>>, <<132, 264>>, <<260, 264>>, <<300, 304>>, <<380, 268>>, <<32, 334>>, <<124, 378>>, <<212, 362>>, <<264, 330>>, <<376, 334>>, <<468, 346>> >>,
    triangles |-> << <<3, 2, 4>>, <<4, 2, 6>>, <<5, 4, 6>>, <<1, 2, 7>>, <<2, 3, 8>>, <<7, 2, 8>>, <<3, 4, 9>>, <<8, 3, 9>>, <<4, 5, 10>>, <<9, 4, 10>>, <<5, 6, 11>>, <<10, 5, 11>>, <<11, 6, 12>>, <<1, 7, 13>>, <<7, 8, 14>>, <<13, 7, 14>>, <<8, 9, 15>>, <<14, 8, 15>>, <<15, 9, 16>>, <<9, 10, 17>>, <<16, 9, 17>>, <<10, 11, 17>>, <<11, 12, 18>>, <<17, 11, 18>>, <<13, 14, 19>>, <<14, 15, 20>>, <<19, 14, 20>>, <<15, 16, 20>>, <<20, 16, 21>>, <<16, 17, 22>>, <<17, 18, 23>>, <<22, 17, 23>>, <<18, 12, 24>>, <<23, 18, 24>>, <<13, 19, 25>>, <<25, 19, 26>>, <<19, 20, 27>>, <<20, 21, 27>>, <<26, 19, 27>>, <<21, 16, 28>>, <<16, 22, 28>>, <<22, 23, 28>>, <<28, 23, 29>>, <<23, 24, 30>>, <<29, 23, 30>>, <<25, 26, 31>>, <<26, 27, 32>>, <<31, 26, 32>>, <<27, 21, 33>>, <<21, 28, 33>>, <<32, 27, 33>>, <<28, 29, 34>>, <<33, 28, 34>>, <<29, 30, 35>>, <<34, 29, 35>>, <<33, 34, 35>>, <<30, 24, 36>>, <<35, 30, 36>>, <<33, 35, 36>> >>,
    valid |-> { 3, 4, 5, 6, 7, 8, 9, 10, 12, 13, 14, 15, 16, 17, 18, 19, 20, 21, 22, 23, 24, 25, 26, 27, 28, 29, 30, 31, 32, 33, 34, 35, 36, 37, 38, 39, 40, 41, 42, 43, 44, 45, 46, 47, 48, 49, 50, 51, 52, 53, 54, 57, 58 } ],
  [ points |-> << <<-20, 28>>, <<108, -28>>, <<180, 16>>, <<244, 20>>, <<328, 8>>, <<396, 8>>, <<16, 54>>, <<140, 86>>, <<188, 46>>, <<272, 82>>, <<340, 98>>, <<460, 78>>, <<20, 152>>, <<88, 132>>, <<140, 164>>, <<256, 164>>, <<304, 132>>, <<428, 148>>, <<56, 218>>, <<112, 182>>, <<200, 210>>, <<252, 238>>, <<360, 190>>, <<432, 198>>, <<-4, 280>>, <<108, 308>>, <<132, 256>>, <<244, 308>>, <<320, 272>>, <<384, 296>>, <<36, 354>>, <<104, 342>>, <<204, 362>>, <<296, 342>>, <<340, 350>>, <<428, 322>> >>,
    triangles |-> << <<3, 2, 4>>, <<4, 2, 5>>, <<5, 2, 6>>, <<1, 2, 7>>, <<2, 3, 8>>, <<7, 2, 8>>, <<3, 4, 9>>, <<8, 3, 9>>, <<4, 5, 10>>, <<9, 4, 10>>, <<5, 6, 11>>, <<10, 5, 11>>, <<11, 6, 12>>, <<1, 7, 13>>, <<7, 8, 14>>, <<13, 7, 14>>, <<14, 8, 15>>, <<8, 9, 16>>, <<9, 10, 16>>, <<15, 8, 16>>, <<10, 11, 17>>, <<16, 10, 17>>, <<11, 12, 18>>, <<13, 14, 19>>, <<14, 15, 20>>, <<19, 14, 20>>, <<15, 16, 21>>, <<21, 16, 22>>, <<17, 11, 23>>, <<11, 18, 23>>, <<16, 17, 23>>, <<22, 16, 23>>, <<18, 12, 24>>, <<23, 18, 24>>, <<1, 13, 25>>, <<13, 19, 25>>, <<25, 19, 26>>, <<20, 15, 27>>, <<15, 21, 27>>, <<19, 20, 27>>, <<26, 19, 27>>, <<21, 22, 28>>, <<27, 21, 28>>, <<22, 23, 29>>, <<28, 22, 29>>, <<23, 24, 30>>, <<29, 23, 30>>, <<25, 26, 31>>, <<31, 26, 32>>, <<26, 27, 33>>, <<27, 28, 33>>, <<32, 26, 33>>, <<31, 32, 33>>, <<28, 29, 34>>, <<33, 28, 34>>, <<29, 30, 35>>, <<34, 29, 35>>, <<33, 34, 35>>, <<24, 12, 36>>, <<30, 24, 36>>, <<35, 30, 36>> >>,
    valid |-> { 5, 6, 7, 8, 9, 10, 11, 12, 13, 15, 16, 17, 18, 19, 20, 21, 22, 23, 24, 25, 26, 27, 28, 29, 30, 31, 32, 34, 36, 37, 38, 39, 40, 41, 42, 43, 44, 45, 46, 47, 48, 49, 50, 51, 54, 55, 56, 57, 60, 61 } ],
  [ points |-> << <<24, 20>>, <<52, -12>>, <<140, 8>>, <<260, 8>>, <<296, 16>>, <<372, 8>>, <<52, 94>>, <<140, 74>>, <<208, 94>>, <<276, 54>>, <<384, 74>>, <<412, 74>>, <<-12, 160>>, <<52, 136>>, <<156, 156>>, <<212, 156>>, <<300, 136>>, <<412, 124>>, <<56, 206>>, <<92, 234>>, <<216, 210>>, <<256, 238>>, <<368, 214>>, <<424, 206>>, <<24, 296>>, <<52, 264>>, <<132, 260>>, <<228, 292>>, <<332, 256>>, <<388, 280>>, <<40, 326>>, <<100, 362>>, <<224, 334>>, <<260, 374>>, <<332, 326>>, <<464, 366>> >>,
    triangles |-> << <<3, 2, 4>>, <<5, 4, 6>>, <<1, 2, 7>>, <<2, 3, 7>>, <<7, 3, 8>>, <<3, 4, 9>>, <<8, 3, 9>>, <<4, 5, 10>>, <<9, 4, 10>>, <<5, 6, 11>>, <<10, 5, 11>>, <<11, 6, 12>>, <<1, 7, 13>>, <<7, 8, 14>>, <<13, 7, 14>>, <<8, 9, 15>>, <<14, 8, 15>>, <<15, 9, 16>>, <<9, 10, 17>>, <<16, 9, 17>>, <<10, 11, 17>>, <<11, 12, 18>>, <<17, 11, 18>>, <<13, 14, 19>>, <<14, 15, 19>>, <<19, 15, 20>>, <<16, 17, 21>>, <<15, 16, 21>>, <<21, 17, 22>>, <<17, 18, 23>>, <<18, 12, 24>>, <<23, 18, 24>>, <<13, 19, 26>>, <<25, 13, 26>>, <<19, 20, 26>>, <<20, 15, 27>>, <<15, 21, 27>>, <<26, 20, 27>>, <<21, 22, 28>>, <<27, 21, 28>>, <<22, 17, 29>>, <<17, 23, 29>>, <<28, 22, 29>>, <<23, 24, 30>>, <<29, 23, 30>>, <<25, 26, 31>>, <<26, 27, 32>>, <<31, 26, 32>>, <<27, 28, 33>>, <<32, 27, 33>>, <<32, 33, 34>>, <<28, 29, 35>>, <<33, 28, 35>>, <<34, 33, 35>>, <<29, 30, 35>>, <<24, 12, 36>>, <<30, 24, 36>>, <<35, 30, 36>>, <<34, 35, 36>> >>,
    valid |-> { 3, 4, 5, 6, 7, 8, 9, 10, 11, 12, 13, 14, 15, 16, 17, 18, 19, 20, 21, 22, 23, 24, 25, 26, 27, 28, 29, 30, 32, 33, 35, 36, 37, 38, 39, 40, 41, 42, 43, 44, 45, 46, 47, 48, 49, 50, 52, 53, 54, 55, 57, 58 } ],
  [ points |-> << <<-8, 12>>, <<64, -12>>, <<140, 8>>, <<244, -12>>, <<340, -4>>, <<404, 16>>, <<60, 78>>, <<104, 98>>, <<228, 42>>, <<268, 98>>, <<340, 54>>, <<444, 42>>, <<4, 164>>, <<56, 112>>, <<156, 152>>, <<220, 128>>, <<332, 160>>, <<372, 136>>, <<36, 190>>, <<96, 186>>, <<216, 234>>, <<288, 230>>, <<348, 206>>, <<468, 238>>, <<-12, 288>>, <<72, 276>>, <<140, 300>>, <<228, 288>>, <<320, 280>>, <<428, 272>>, <<40, 338>>, <<128, 350>>, <<176, 330>>, <<272, 334>>, <<368, 358>>, <<448, 354>> >>,
    triangles |-> << <<3, 2, 4>>, <<1, 2, 7>>, <<2, 3, 7>>, <<7, 3, 8>>, <<3, 4, 9>>, <<8, 3, 9>>, <<4, 5, 11>>, <<9, 4, 11>>, <<5, 6, 11>>, <<10, 9, 11>>, <<11, 6, 12>>, <<1, 7, 14>>, <<13, 1, 14>>, <<7, 8, 14>>, <<8, 9, 16>>, <<15, 8, 16>>, <<9, 10, 16>>, <<10, 11, 17>>, <<16, 10, 17>>, <<11, 12, 18>>, <<17, 11, 18>>, <<13, 14, 19>>, <<14, 8, 20>>, <<8, 15, 20>>, <<19, 14, 20>>, <<15, 16, 21>>, <<20, 15, 21>>, <<16, 17, 22>>, <<21, 16, 22>>, <<17, 18, 23>>, <<22, 17, 23>>, <<18, 12, 24>>, <<23, 18, 24>>, <<1, 13, 25>>, <<13, 19, 25>>, <<19, 20, 26>>, <<25, 19, 26>>, <<20, 21, 27>>, <<26, 20, 27>>, <<21, 22, 28>>, <<27, 21, 28>>, <<22, 23, 29>>, <<28, 22, 29>>, <<23, 24, 30>>, <<29, 23, 30>>, <<25, 26, 31>>, <<26, 27, 32>>, <<31, 26, 32>>, <<27, 28, 33>>, <<32, 27, 33>>, <<28, 29, 34>>, <<33, 28, 34>>, <<32, 33, 34>>, <<29, 30, 35>>, <<34, 29, 35>>, <<32, 34, 35>>, <<30, 24, 36>>, <<35, 30, 36>> >>,
    valid |-> { 2, 3, 4, 5, 6, 7, 8, 9, 10, 11, 13, 14, 15, 16, 17, 18, 19, 20, 21, 22, 23, 24, 25, 26, 27, 28, 29, 30, 31, 32, 33, 36, 37, 38, 39, 40, 41, 42, 43, 44, 45, 46, 47, 48, 49, 50, 51, 52, 54, 55, 57, 58 } ],
  [ points |-> << <<-16, 16>>, <<108, 24>>, <<176, 0>>, <<248, -12>>, <<308, -4>>, <<388, 4>>, <<60, 50>>, <<96, 94>>, <<172, 58>>, <<272, 98>>, <<364, 82>>, <<436, 90>>, <<-4, 168>>, <<68, 116>>, <<140, 152>>, <<216, 120>>, <<348, 116>>, <<412, 152>>, <<16, 238>>, <<140, 222>>, <<224, 194>>, <<272, 238>>, <<340, 186>>, <<452, 198>>, <<28, 252>>, <<56, 280>>, <<132, 292>>, <<260, 276>>, <<344, 264>>, <<388, 284>>, <<32, 350>>, <<92, 326>>, <<220, 326>>, <<264, 330>>, <<344, 346>>, <<412, 334>> >>,
    triangles |-> << <<2, 1, 3>>, <<1, 2, 7>>, <<7, 2, 8>>, <<2, 3, 9>>, <<8, 2, 9>>, <<3, 4, 9>>, <<4, 5, 10>>, <<9, 4, 10>>, <<5, 6, 11>>, <<10, 5, 11>>, <<11, 6, 12>>, <<1, 7, 14>>, <<13, 1, 14>>, <<7, 8, 14>>, <<8, 9, 15>>, <<14, 8, 15>>, <<9, 10, 16>>, <<15, 9, 16>>, <<10, 11, 17>>, <<11, 12, 18>>, <<17, 11, 18>>, <<13, 14, 19>>, <<14, 15, 20>>, <<19, 14, 20>>, <<16, 10, 21>>, <<15, 16, 21>>, <<20, 15, 21>>, <<10, 17, 23>>, <<21, 10, 23>>, <<22, 21, 23>>, <<17, 18, 23>>, <<18, 12, 24>>, <<23, 18, 24>>, <<19, 20, 25>>, <<25, 20, 26>>, <<26, 20, 27>>, <<20, 21, 28>>, <<27, 20, 28>>, <<21, 22, 28>>, <<22, 23, 29>>, <<28, 22, 29>>, <<23, 24, 30>>, <<29, 23, 30>>, <<13, 19, 31>>, <<19, 25, 31>>, <<25, 26, 31>>, <<26, 27, 32>>, <<31, 26, 32>>, <<27, 28, 33>>, <<32, 27, 33>>, <<31, 32, 33>>, <<28, 29, 34>>, <<33, 28, 34>>, <<29, 30, 35>>, <<34, 29, 35>>, <<30, 24, 36>>, <<35, 30, 36>> >>,
    valid |-> { 2, 3, 4, 5, 6, 7, 8, 9, 10, 11, 12, 13, 14, 15, 16, 17, 18, 19, 20, 21, 22, 23, 24, 25, 26, 27, 28, 29, 30, 31, 32, 33, 36, 37, 38, 39, 40, 41, 42, 43, 46, 47, 48, 49, 50, 52, 53, 54, 55, 56, 57 } ]
  >>

\* tiles[i]: the valid triangles that contain point i.
TilesOfPoint(scene, i) ==
  IndicesWhere(AsTuple([t \in DOMAIN scene.triangles |->
                          t \in scene.valid /\ i \in Range(scene.triangles[t])]))

\* delaunayNeighbors of point i, in insertion order.
DelaunayNeighbors(scene, tw, i) ==
  Dedupe(Concat(AsTuple([k \in DOMAIN tw |->
           Filter(scene.triangles[tw[k]],
                  AsTuple([j \in 1..3 |-> scene.triangles[tw[k]][j] # i]))])))

\* voronoiNeighbors: the neighbours in at least two of the tile's triangles.
VoronoiNeighbors(scene, tw, dn) ==
  Filter(dn, AsTuple([k \in DOMAIN dn |->
               Cardinality({ t \in Range(tw) : dn[k] \in Range(scene.triangles[t]) }) >= 2]))

\* The valid tiles among the neighbours of the given tiles (a ring).
ValidNeighborsOf(tileNeighbors, validTiles, from) ==
  { n \in validTiles : \E t \in from : n \in Range(tileNeighbors[t]) }

\* buildVoronoi: tiles, tileNeighbors, validTiles, edgeTiles, ineligibleTiles
\* and the two rings around the ineligible tiles that make waterOnlyTiles.
buildVoronoi(scene) ==
  With(AsTuple([i \in DOMAIN scene.points |-> TilesOfPoint(scene, i)]), LAMBDA tiles :
  With(AsTuple([i \in DOMAIN scene.points |-> DelaunayNeighbors(scene, tiles[i], i)]),
       LAMBDA dns :
  With(AsTuple([i \in DOMAIN scene.points |-> VoronoiNeighbors(scene, tiles[i], dns[i])]),
       LAMBDA tileNeighbors :
  With({ i \in DOMAIN scene.points : Len(tiles[i]) >= 3 }, LAMBDA validTiles :
  With({ i \in validTiles : Len(tileNeighbors[i]) < Len(dns[i]) }, LAMBDA edgeTiles :
  With(edgeTiles \cup { i \in validTiles :
                          \E k \in DOMAIN tileNeighbors[i] :
                            tileNeighbors[i][k] \in edgeTiles }, LAMBDA ineligibleTiles :
  With(ValidNeighborsOf(tileNeighbors, validTiles, ineligibleTiles), LAMBDA firstRing :
    [tiles |-> tiles,
     tileNeighbors |-> tileNeighbors,
     validTiles |-> validTiles,
     edgeTiles |-> edgeTiles,
     ineligibleTiles |-> ineligibleTiles,
     waterOnlyTiles |->
       ineligibleTiles \cup firstRing
         \cup ValidNeighborsOf(tileNeighbors, validTiles, firstRing)])))))))

getFourSidedTiles(points, graph) ==
  IndicesWhere(AsTuple([i \in DOMAIN points |->
                 /\ i \in graph.validTiles
                 /\ i \notin graph.ineligibleTiles
                 /\ Len(graph.tileNeighbors[i]) = 4]))

\* The square of distance(p1, p2).
Dist2(p1, p2) == (p1[1] - p2[1]) * (p1[1] - p2[1]) + (p1[2] - p2[2]) * (p1[2] - p2[2])

\* closestNeighbor: the first neighbour at the least distance, -1 as 0.
ClosestNeighbor(points, graph, tile) ==
  LET ns == graph.tileNeighbors[tile]
  IN IF ns = << >> THEN 0
     ELSE ns[CHOOSE k \in DOMAIN ns :
               /\ \A j \in DOMAIN ns : Dist2(points[tile], points[ns[k]])
                                         <= Dist2(points[tile], points[ns[j]])
               /\ \A j \in 1..(k - 1) : Dist2(points[tile], points[ns[j]])
                                          > Dist2(points[tile], points[ns[k]])]

\* The keys of uniquePairs, in insertion order.
UniquePairs(points, graph) ==
  With(getFourSidedTiles(points, graph), LAMBDA fs :
  With(AsTuple([k \in DOMAIN fs |-> ClosestNeighbor(points, graph, fs[k])]), LAMBDA cn :
    Dedupe(Filter(AsTuple([k \in DOMAIN fs |->
                    IF fs[k] < cn[k] THEN << fs[k], cn[k] >> ELSE << cn[k], fs[k] >>]),
                  AsTuple([k \in DOMAIN fs |-> cn[k] # 0])))))

\* The first pair a point is found in, 0 when it is in none.
FirstPairOf(pairs, i) ==
  IF \E k \in DOMAIN pairs : i \in Range(pairs[k])
    THEN CHOOSE k \in DOMAIN pairs :
           i \in Range(pairs[k]) /\ \A j \in 1..(k - 1) : i \notin Range(pairs[j])
    ELSE 0

Midpoint(p, q) == << (p[1] + q[1]) \div 2, (p[2] + q[2]) \div 2 >>

\* merge4SidedTiles: what each old point pushes on mergedPoints.
merge4SidedTiles(points, graph) ==
  With(UniquePairs(points, graph), LAMBDA pairs :
    IF pairs = << >>
      THEN [merged |-> FALSE, newPoints |-> << >>, mergeLocations |-> << >>]
      ELSE
        With(AsTuple([i \in DOMAIN points |-> FirstPairOf(pairs, i)]), LAMBDA first :
        With(AsTuple([i \in DOMAIN points |->
               IF first[i] = 0 THEN << points[i] >>
               ELSE IF i = pairs[first[i]][1]
                 THEN << Midpoint(points[pairs[first[i]][1]], points[pairs[first[i]][2]]) >>
               ELSE << >>]), LAMBDA pushed :
          [merged |-> TRUE,
           newPoints |-> Concat(pushed),
           mergeLocations |->
             With(IndicesWhere(AsTuple([i \in DOMAIN points |->
                                 first[i] # 0 /\ i = pairs[first[i]][1]])), LAMBDA as :
               AsTuple([k \in DOMAIN as |->
                          Cardinality({ j \in 1..(as[k] - 1) : pushed[j] # << >> })]))])))

\* The graphs and merge results of the scenes.
RegGraphs == AsTuple([sc \in DOMAIN RegScenes |-> buildVoronoi(RegScenes[sc])])

RegMerges ==
  AsTuple([sc \in DOMAIN RegScenes |->
             merge4SidedTiles(RegScenes[sc].points, RegGraphs[sc])])

FourSidedCounts ==
  { Len(getFourSidedTiles(RegScenes[sc].points, RegGraphs[sc])) : sc \in DOMAIN RegScenes }

\* The scenes whose graph has n 4-sided eligible tiles.
ScenesWith(n) ==
  { sc \in DOMAIN RegScenes :
      Len(getFourSidedTiles(RegScenes[sc].points, RegGraphs[sc])) = n }

(***************************************************************************)
(* The regularization loop of generateMapData (mapgen.js).  What the loop  *)
(* does to its data is kept as provenance: every array that is assigned to *)
(* the global points is named by the round and the statement that made it, *)
(* a triangulation by the array it was computed from, and the dual graph   *)
(* (tiles, tileNeighbors, validTiles, ineligibleTiles, waterOnlyTiles) by  *)
(* the arguments of the buildVoronoi call that wrote it.  The geometry     *)
(* decides what the code cannot: whether a triangulation comes back empty, *)
(* whether some tile area is an outlier, and how many 4-sided eligible     *)
(* tiles a build leaves.  The merge step of a round runs on a scene with   *)
(* as many 4-sided eligible tiles as the loop counted.                     *)
(***************************************************************************)
\* const maxIterations = 20
maxIterations == 20

NoStamp == [round |-> 0, step |-> "none"]

Stamp(round, step) == [round |-> round, step |-> step]

\* result = delaunay(points); triangles = result.triangles
Triangulated(points, empty) == [of |-> points, empty |-> empty]

\* buildVoronoi(points, triangles)
Built(points, triangles) == [points |-> points, triangles |-> triangles]

NoRegState ==
  [points |-> NoStamp, triangles |-> Triangulated(NoStamp, TRUE),
   graph |-> Built(NoStamp, Triangulated(NoStamp, TRUE)), fourSided |-> 0, broke |-> FALSE]

\* A loop condition without the iteration cap.
LoopGuard_Uncapped(n, i) == n > 0

\* while ((fourSided.length > 0) && iteration < maxIterations)
LoopGuard(n, i) == n > 0 /\ i < maxIterations

\* Where a triangulation of the round comes back empty.
Collapses == {"none", "afterMerge", "afterRelax", "afterOutliers"}

\* The body of the loop in round it: merge, triangulate, build, relax,
\* triangulate, build, then the same for the area outliers, and count the
\* 4-sided tiles again.  Each "if (triangles.length === 0) break" leaves
\* with what has been assigned so far.
RegularizeRound(st, it, merged, collapse, outliers, nextFourSided) ==
  LET p1 == Stamp(it, "merged")
      t1 == Triangulated(p1, collapse = "afterMerge")
      p2 == IF merged THEN Stamp(it, "relaxed") ELSE st.points
      t2 == IF merged THEN Triangulated(p2, collapse = "afterRelax") ELSE st.triangles
      p3 == Stamp(it, "relaxedOutliers")
      t3 == Triangulated(p3, collapse = "afterOutliers")
  IN IF merged /\ t1.empty
       THEN [st EXCEPT !.points = p1, !.triangles = t1, !.broke = TRUE]
     ELSE IF merged /\ t2.empty
       THEN [st EXCEPT !.points = p2, !.triangles = t2, !.graph = Built(p1, t1),
                       !.broke = TRUE]
     ELSE IF ~merged /\ ~outliers
       THEN st
     ELSE IF ~outliers
       THEN [st EXCEPT !.points = p2, !.triangles = t2, !.graph = Built(p2, t2),
                       !.fourSided = nextFourSided]
     ELSE IF t3.empty
       THEN [st EXCEPT !.points = p3, !.triangles = t3, !.graph = Built(p2, t2),
                       !.broke = TRUE]
     ELSE [st EXCEPT !.points = p3, !.triangles = t3, !.graph = Built(p3, t3),
                     !.fourSided = nextFourSided]

RegState == [points |-> regPoints, triangles |-> regTriangles, graph |-> regGraph,
             fourSided |-> fourSided, broke |-> FALSE]

SetRegState(st) ==
  /\ regPoints' = st.points
  /\ regTriangles' = st.triangles
  /\ regGraph' = st.graph
  /\ fourSided' = st.fourSided

RegFrame ==
  UNCHANGED << callVars, probeVars, previous, gameVars, shapeVars, walkVars, tradeVars >>

NoMerge == [merged |-> FALSE, newPoints |-> << >>, mergeLocations |-> << >>]

\* generateMapData up to the loop: reset, sample, triangulate, build.
\* Fewer than three points and an empty triangulation are error returns.
StartGeneration ==
  /\ regPc = "idle"
  /\ \E enough \in BOOLEAN, empty \in BOOLEAN, n \in FourSidedCounts \cup {0} :
       \E p \in {Stamp(0, "sampled")} :
         IF ~enough
           THEN /\ SetRegState([NoRegState EXCEPT !.points = p])
                /\ regPc' = "error"
         ELSE IF empty
           THEN /\ SetRegState([NoRegState EXCEPT !.points = p,
                                                  !.triangles = Triangulated(p, TRUE)])
                /\ regPc' = "error"
         ELSE /\ SetRegState([NoRegState EXCEPT
                                !.points = p, !.triangles = Triangulated(p, FALSE),
                                !.graph = Built(p, Triangulated(p, FALSE)),
                                !.fourSided = n])
              /\ regPc' = "loop"
  /\ iteration' = 0
  /\ mergeScene' = 0
  /\ mergeOut' = NoMerge
  /\ RegFrame

\* One pass through the body of the while loop.
Round ==
  /\ regPc = "loop"
  /\ LoopGuard(fourSided, iteration)
  /\ \E sc \in ScenesWith(fourSided), collapse \in Collapses, outliers \in BOOLEAN,
        n \in FourSidedCounts \cup {0} :
       \E st \in {RegularizeRound(RegState, iteration + 1, RegMerges[sc].merged,
                                  collapse, outliers, n)} :
         /\ SetRegState(st)
         /\ regPc' = IF st.broke THEN "shaping" ELSE "loop"
         /\ mergeScene' = sc
         /\ mergeOut' = RegMerges[sc]
  /\ iteration' = iteration + 1
  /\ RegFrame

\* The loop condition fails.
LeaveLoop ==
  /\ regPc = "loop"
  /\ ~LoopGuard(fourSided, iteration)
  /\ regPc' = "shaping"
  /\ UNCHANGED << iteration, fourSided, regPoints, regTriangles, regGraph, mergeVars >>
  /\ RegFrame

\* The land-shaping stage and the return; the next call resets the globals.
ShapeLand ==
  /\ regPc \in {"shaping", "error"}
  /\ regPc' = "idle"
  /\ iteration' = 0
  /\ SetRegState(NoRegState)
  /\ UNCHANGED mergeVars
  /\ RegFrame

NextRegularize ==
  \/ StartGeneration
  \/ Round
  \/ LeaveLoop
  \/ ShapeLand

\* The loop is straight-line code: a call that has started keeps running.
SpecRegularize == Init /\ [][NextRegularize]_vars /\ WF_vars(Round \/ LeaveLoop)

(***************************************************************************)
(* The land-shaping stage of generateMapData (mapgen.js): centre tile,     *)
(* growth, erosion/accretion rounds, water tiles and the repair step, on   *)
(* the graph buildVoronoi made of a point set.  The scenes are jittered    *)
(* hexagonal grids with the triangles delaunay returns for them; width and *)
(* height are the canvas dimensions.  A JavaScript Set is kept as the      *)
(* sequence of its elements in insertion order.                            *)
(***************************************************************************)
ShapeScenes ==
  << [width |-> 260, height |-> 210,
      points |-> << <<-2, 1>>, <<43, 3>>, <<83, -3>>, <<119, -3>>, <<160, 3>>, <<200, 0>>,
        <<242, 0>>, <<23, 33>>, <<57, 35>>, <<97, 38>>, <<140, 35>>, <<181, 38>>, <<223, 32>>,
        <<262, 35>>, <<-1, 72>>, <<43, 68>>, <<81, 67>>, <<119, 67>>, <<157, 67>>, <<202, 71>>,
        <<237, 70>>, <<22, 103>>, <<60, 107>>, <<97, 106>>, <<138, 108>>, <<180, 105>>, <<221,
        103>>, <<259, 103>>, <<2, 138>>, <<43, 140>>, <<79, 137>>, <<120, 143>>, <<161, 142>>,
        <<197, 138>>, <<242, 142>>, <<23, 174>>, <<57, 177>>, <<99, 177>>, <<142, 176>>, <<180,
        176>>, <<223, 177>>, <<258, 174>>, <<-1, 211>>, <<40, 213>>, <<81, 210>>, <<121, 213>>,
        <<157, 210>>, <<198, 212>>, <<243, 210>> >>,
      triangles |-> << <<2, 1, 3>>, <<5, 4, 6>>, <<1, 2, 8>>, <<2, 3, 9>>, <<8, 2, 9>>, <<3, 4,
        10>>, <<9, 3, 10>>, <<4, 5, 11>>, <<10, 4, 11>>, <<5, 6, 12>>, <<11, 5, 12>>, <<6, 7,
        13>>, <<12, 6, 13>>, <<13, 7, 14>>, <<1, 8, 15>>, <<8, 9, 16>>, <<15, 8, 16>>, <<9, 10,
        17>>, <<16, 9, 17>>, <<10, 11, 18>>, <<17, 10, 18>>, <<11, 12, 19>>, <<18, 11, 19>>,
        <<12, 13, 20>>, <<19, 12, 20>>, <<13, 14, 21>>, <<20, 13, 21>>, <<15, 16, 22>>, <<16,
        17, 23>>, <<22, 16, 23>>, <<17, 18, 24>>, <<23, 17, 24>>, <<18, 19, 25>>, <<24, 18,
        25>>, <<19, 20, 26>>, <<25, 19, 26>>, <<20, 21, 27>>, <<26, 20, 27>>, <<21, 14, 28>>,
        <<27, 21, 28>>, <<15, 22, 29>>, <<22, 23, 30>>, <<29, 22, 30>>, <<23, 24, 31>>, <<30,
        23, 31>>, <<24, 25, 32>>, <<31, 24, 32>>, <<25, 26, 33>>, <<32, 25, 33>>, <<26, 27,
        34>>, <<33, 26, 34>>, <<27, 28, 35>>, <<34, 27, 35>>, <<29, 30, 36>>, <<30, 31, 37>>,
        <<36, 30, 37>>, <<31, 32, 38>>, <<37, 31, 38>>, <<32, 33, 39>>, <<38, 32, 39>>, <<33,
        34, 40>>, <<39, 33, 40>>, <<34, 35, 41>>, <<40, 34, 41>>, <<35, 28, 42>>, <<41, 35,
        42>>, <<15, 29, 43>>, <<29, 36, 43>>, <<36, 37, 44>>, <<43, 36, 44>>, <<37, 38, 45>>,
        <<44, 37, 45>>, <<44, 45, 46>>, <<38, 39, 46>>, <<45, 38, 46>>, <<39, 40, 47>>, <<46,
        39, 47>>, <<46, 47, 48>>, <<40, 41, 48>>, <<47, 40, 48>>, <<41, 42, 49>>, <<48, 41, 49>>
        >>,
      valid |-> { 3, 4, 5, 6, 7, 8, 9, 10, 11, 12, 13, 14, 15, 16, 17, 18, 19, 20, 21, 22, 23,
        24, 25, 26, 27, 28, 29, 30, 31, 32, 33, 34, 35, 36, 37, 38, 39, 40, 41, 42, 43, 44, 45,
        46, 47, 48, 49, 50, 51, 52, 53, 54, 55, 56, 57, 58, 59, 60, 61, 62, 63, 64, 65, 66, 68,
        69, 70, 71, 72, 74, 75, 76, 77, 79, 80, 81, 82 }],
     [width |-> 340, height |-> 280,
      points |-> << <<-2, 1>>, <<43, 3>>, <<83, -3>>, <<119, -3>>, <<160, 3>>, <<200, 0>>,
        <<242, 0>>, <<283, -2>>, <<317, 0>>, <<17, 38>>, <<60, 35>>, <<101, 38>>, <<143, 32>>,
        <<182, 35>>, <<219, 37>>, <<263, 33>>, <<301, 32>>, <<339, 32>>, <<-3, 67>>, <<42, 71>>,
        <<77, 70>>, <<122, 68>>, <<160, 72>>, <<197, 71>>, <<238, 73>>, <<280, 70>>, <<321,
        68>>, <<19, 103>>, <<62, 103>>, <<103, 105>>, <<139, 102>>, <<180, 108>>, <<221, 107>>,
        <<257, 103>>, <<302, 107>>, <<343, 104>>, <<-3, 142>>, <<39, 142>>, <<82, 141>>, <<120,
        141>>, <<163, 142>>, <<198, 139>>, <<239, 141>>, <<280, 143>>, <<321, 140>>, <<21,
        178>>, <<57, 175>>, <<98, 177>>, <<143, 175>>, <<180, 177>>, <<218, 174>>, <<261, 177>>,
        <<303, 177>>, <<342, 174>>, <<-3, 210>>, <<42, 211>>, <<77, 213>>, <<118, 211>>, <<163,
        210>>, <<199, 210>>, <<242, 207>>, <<280, 207>>, <<319, 212>>, <<23, 246>>, <<61, 246>>,
        <<100, 247>>, <<138, 243>>, <<181, 243>>, <<217, 248>>, <<258, 246>>, <<303, 246>>,
        <<338, 245>>, <<1, 279>>, <<43, 281>>, <<79, 280>>, <<119, 282>>, <<161, 281>>, <<202,
        277>>, <<240, 283>>, <<283, 283>>, <<322, 281>> >>,
      triangles |-> << <<2, 1, 3>>, <<5, 4, 6>>, <<7, 6, 8>>, <<1, 2, 10>>, <<2, 3, 11>>, <<10,
        2, 11>>, <<3, 4, 12>>, <<11, 3, 12>>, <<4, 5, 13>>, <<12, 4, 13>>, <<5, 6, 14>>, <<13,
        5, 14>>, <<6, 7, 15>>, <<14, 6, 15>>, <<7, 8, 16>>, <<15, 7, 16>>, <<8, 9, 17>>, <<16,
        8, 17>>, <<17, 9, 18>>, <<1, 10, 19>>, <<10, 11, 20>>, <<19, 10, 20>>, <<11, 12, 21>>,
        <<20, 11, 21>>, <<12, 13, 22>>, <<21, 12, 22>>, <<13, 14, 23>>, <<22, 13, 23>>, <<14,
        15, 24>>, <<23, 14, 24>>, <<15, 16, 25>>, <<24, 15, 25>>, <<16, 17, 26>>, <<25, 16,
        26>>, <<17, 18, 27>>, <<26, 17, 27>>, <<19, 20, 28>>, <<20, 21, 29>>, <<28, 20, 29>>,
        <<21, 22, 30>>, <<29, 21, 30>>, <<22, 23, 31>>, <<30, 22, 31>>, <<23, 24, 32>>, <<31,
        23, 32>>, <<24, 25, 33>>, <<32, 24, 33>>, <<25, 26, 34>>, <<33, 25, 34>>, <<26, 27,
        35>>, <<34, 26, 35>>, <<27, 18, 36>>, <<35, 27, 36>>, <<19, 28, 37>>, <<28, 29, 38>>,
        <<37, 28, 38>>, <<29, 30, 39>>, <<38, 29, 39>>, <<30, 31, 40>>, <<39, 30, 40>>, <<31,
        32, 41>>, <<40, 31, 41>>, <<32, 33, 42>>, <<41, 32, 42>>, <<33, 34, 43>>, <<42, 33,
        43>>, <<34, 35, 44>>, <<43, 34, 44>>, <<35, 36, 45>>, <<44, 35, 45>>, <<37, 38, 46>>,
        <<38, 39, 47>>, <<46, 38, 47>>, <<39, 40, 48>>, <<47, 39, 48>>, <<40, 41, 49>>, <<48,
        40, 49>>, <<41, 42, 50>>, <<49, 41, 50>>, <<42, 43, 51>>, <<50, 42, 51>>, <<43, 44,
        52>>, <<51, 43, 52>>, <<44, 45, 53>>, <<52, 44, 53>>, <<45, 36, 54>>, <<53, 45, 54>>,
        <<37, 46, 55>>, <<46, 47, 56>>, <<55, 46, 56>>, <<47, 48, 57>>, <<56, 47, 57>>, <<48,
        49, 58>>, <<57, 48, 58>>, <<49, 50, 59>>, <<58, 49, 59>>, <<50, 51, 60>>, <<59, 50,
        60>>, <<51, 52, 61>>, <<60, 51, 61>>, <<52, 53, 62>>, <<61, 52, 62>>, <<53, 54, 63>>,
        <<62, 53, 63>>, <<55, 56, 64>>, <<56, 57, 65>>, <<64, 56, 65>>, <<57, 58, 66>>, <<65,
        57, 66>>, <<58, 59, 67>>, <<66, 58, 67>>, <<59, 60, 68>>, <<67, 59, 68>>, <<60, 61,
        69>>, <<68, 60, 69>>, <<61, 62, 70>>, <<69, 61, 70>>, <<62, 63, 71>>, <<70, 62, 71>>,
        <<63, 54, 72>>, <<71, 63, 72>>, <<55, 64, 73>>, <<64, 65, 74>>, <<73, 64, 74>>, <<65,
        66, 75>>, <<74, 65, 75>>, <<74, 75, 76>>, <<66, 67, 76>>, <<75, 66, 76>>, <<67, 68,
        77>>, <<76, 67, 77>>, <<68, 69, 78>>, <<77, 68, 78>>, <<77, 78, 79>>, <<69, 70, 79>>,
        <<78, 69, 79>>, <<70, 71, 80>>, <<79, 70, 80>>, <<71, 72, 81>>, <<80, 71, 81>> >>,
      valid |-> { 4, 5, 6, 7, 8, 9, 10, 11, 12, 13, 14, 15, 16, 17, 18, 19, 20, 21, 22, 23, 24,
        25, 26, 27, 28, 29, 30, 31, 32, 33, 34, 35, 36, 37, 38, 39, 40, 41, 42, 43, 44, 45, 46,
        47, 48, 49, 50, 51, 52, 53, 54, 55, 56, 57, 58, 59, 60, 61, 62, 63, 64, 65, 66, 67, 68,
        69, 70, 71, 72, 73, 74, 75, 76, 77, 78, 79, 80, 81, 82, 83, 84, 85, 86, 87, 88, 89, 90,
        91, 92, 93, 94, 95, 96, 97, 98, 99, 100, 101, 102, 103, 104, 105, 106, 107, 108, 109,
        110, 111, 112, 113, 114, 115, 116, 117, 118, 119, 120, 121, 122, 123, 124, 125, 126,
        128, 129, 130, 131, 132, 133, 135, 136, 137, 138, 139, 140 }],
     [width |-> 460, height |-> 350,
      points |-> << <<-2, 1>>, <<43, 3>>, <<83, -3>>, <<119, -3>>, <<160, 3>>, <<200, 0>>,
        <<242, 0>>, <<283, -2>>, <<317, 0>>, <<357, 3>>, <<400, 0>>, <<441, 3>>, <<23, 32>>,
        <<62, 35>>, <<99, 37>>, <<143, 33>>, <<181, 32>>, <<219, 32>>, <<257, 32>>, <<302, 36>>,
        <<337, 35>>, <<382, 33>>, <<420, 37>>, <<457, 36>>, <<-2, 73>>, <<40, 70>>, <<81, 68>>,
        <<119, 68>>, <<162, 68>>, <<203, 70>>, <<239, 67>>, <<280, 73>>, <<321, 72>>, <<357,
        68>>, <<402, 72>>, <<443, 69>>, <<17, 107>>, <<59, 107>>, <<102, 106>>, <<140, 106>>,
        <<183, 107>>, <<218, 104>>, <<259, 106>>, <<300, 108>>, <<341, 105>>, <<381, 108>>,
        <<417, 105>>, <<458, 107>>, <<3, 140>>, <<40, 142>>, <<78, 139>>, <<121, 142>>, <<163,
        142>>, <<202, 139>>, <<237, 140>>, <<282, 141>>, <<317, 143>>, <<358, 141>>, <<403,
        140>>, <<439, 140>>, <<22, 172>>, <<60, 172>>, <<99, 177>>, <<143, 176>>, <<181, 176>>,
        <<220, 177>>, <<258, 173>>, <<301, 173>>, <<337, 178>>, <<378, 176>>, <<423, 176>>,
        <<458, 175>>, <<1, 209>>, <<43, 211>>, <<79, 210>>, <<119, 212>>, <<161, 211>>, <<202,
        207>>, <<240, 213>>, <<283, 213>>, <<322, 211>>, <<363, 208>>, <<401, 213>>, <<441,
        208>>, <<20, 242>>, <<60, 248>>, <<99, 246>>, <<141, 243>>, <<181, 245>>, <<220, 248>>,
        <<259, 245>>, <<299, 242>>, <<341, 246>>, <<381, 248>>, <<421, 244>>, <<460, 246>>,
        <<-3, 283>>, <<38, 282>>, <<78, 281>>, <<121, 278>>, <<163, 277>>, <<203, 281>>, <<243,
        283>>, <<283, 279>>, <<317, 283>>, <<362, 277>>, <<397, 283>>, <<437, 280>>, <<17,
        318>>, <<63, 314>>, <<98, 314>>, <<137, 318>>, <<181, 313>>, <<219, 314>>, <<257, 313>>,
        <<298, 314>>, <<341, 313>>, <<382, 314>>, <<422, 317>>, <<459, 315>>, <<2, 349>>, <<40,
        350>>, <<77, 347>>, <<119, 350>>, <<159, 350>>, <<203, 348>>, <<239, 347>>, <<279,
        352>>, <<321, 348>>, <<361, 350>>, <<403, 347>>, <<438, 347>> >>,
      triangles |-> << <<2, 1, 3>>, <<5, 4, 6>>, <<7, 6, 8>>, <<9, 8, 11>>, <<10, 9, 11>>, <<1,
        2, 13>>, <<2, 3, 14>>, <<13, 2, 14>>, <<3, 4, 15>>, <<14, 3, 15>>, <<4, 5, 16>>, <<15,
        4, 16>>, <<5, 6, 17>>, <<16, 5, 17>>, <<6, 7, 18>>, <<17, 6, 18>>, <<7, 8, 19>>, <<18,
        7, 19>>, <<8, 9, 20>>, <<19, 8, 20>>, <<9, 10, 21>>, <<20, 9, 21>>, <<10, 11, 22>>,
        <<21, 10, 22>>, <<11, 12, 23>>, <<22, 11, 23>>, <<23, 12, 24>>, <<1, 13, 25>>, <<13, 14,
        26>>, <<25, 13, 26>>, <<14, 15, 27>>, <<26, 14, 27>>, <<15, 16, 28>>, <<27, 15, 28>>,
        <<16, 17, 29>>, <<28, 16, 29>>, <<17, 18, 30>>, <<29, 17, 30>>, <<18, 19, 31>>, <<30,
        18, 31>>, <<19, 20, 32>>, <<31, 19, 32>>, <<20, 21, 33>>, <<32, 20, 33>>, <<21, 22,
        34>>, <<33, 21, 34>>, <<22, 23, 35>>, <<34, 22, 35>>, <<23, 24, 36>>, <<35, 23, 36>>,
        <<25, 26, 37>>, <<26, 27, 38>>, <<37, 26, 38>>, <<27, 28, 39>>, <<38, 27, 39>>, <<28,
        29, 40>>, <<39, 28, 40>>, <<29, 30, 41>>, <<40, 29, 41>>, <<30, 31, 42>>, <<41, 30,
        42>>, <<31, 32, 43>>, <<42, 31, 43>>, <<32, 33, 44>>, <<43, 32, 44>>, <<33, 34, 45>>,
        <<44, 33, 45>>, <<34, 35, 46>>, <<45, 34, 46>>, <<35, 36, 47>>, <<46, 35, 47>>, <<36,
        24, 48>>, <<47, 36, 48>>, <<25, 37, 49>>, <<37, 38, 50>>, <<49, 37, 50>>, <<38, 39,
        51>>, <<50, 38, 51>>, <<39, 40, 52>>, <<51, 39, 52>>, <<40, 41, 53>>, <<52, 40, 53>>,
        <<41, 42, 54>>, <<53, 41, 54>>, <<42, 43, 55>>, <<54, 42, 55>>, <<43, 44, 56>>, <<55,
        43, 56>>, <<44, 45, 57>>, <<56, 44, 57>>, <<45, 46, 58>>, <<57, 45, 58>>, <<46, 47,
        59>>, <<58, 46, 59>>, <<47, 48, 60>>, <<59, 47, 60>>, <<49, 50, 61>>, <<50, 51, 62>>,
        <<61, 50, 62>>, <<51, 52, 63>>, <<62, 51, 63>>, <<52, 53, 64>>, <<63, 52, 64>>, <<53,
        54, 65>>, <<64, 53, 65>>, <<54, 55, 66>>, <<65, 54, 66>>, <<55, 56, 67>>, <<66, 55,
        67>>, <<56, 57, 68>>, <<67, 56, 68>>, <<57, 58, 69>>, <<68, 57, 69>>, <<58, 59, 70>>,
        <<69, 58, 70>>, <<59, 60, 71>>, <<70, 59, 71>>, <<60, 48, 72>>, <<71, 60, 72>>, <<25,
        49, 73>>, <<49, 61, 73>>, <<61, 62, 74>>, <<73, 61, 74>>, <<62, 63, 75>>, <<74, 62,
        75>>, <<63, 64, 76>>, <<75, 63, 76>>, <<64, 65, 77>>, <<76, 64, 77>>, <<65, 66, 78>>,
        <<77, 65, 78>>, <<66, 67, 79>>, <<78, 66, 79>>, <<67, 68, 80>>, <<79, 67, 80>>, <<68,
        69, 81>>, <<80, 68, 81>>, <<69, 70, 82>>, <<81, 69, 82>>, <<70, 71, 83>>, <<82, 70,
        83>>, <<71, 72, 84>>, <<83, 71, 84>>, <<73, 74, 85>>, <<74, 75, 86>>, <<85, 74, 86>>,
        <<75, 76, 87>>, <<86, 75, 87>>, <<76, 77, 88>>, <<87, 76, 88>>, <<77, 78, 89>>, <<88,
        77, 89>>, <<78, 79, 90>>, <<89, 78, 90>>, <<79, 80, 91>>, <<90, 79, 91>>, <<80, 81,
        92>>, <<91, 80, 92>>, <<81, 82, 93>>, <<92, 81, 93>>, <<82, 83, 94>>, <<93, 82, 94>>,
        <<83, 84, 95>>, <<94, 83, 95>>, <<84, 72, 96>>, <<95, 84, 96>>, <<73, 85, 97>>, <<85,
        86, 98>>, <<97, 85, 98>>, <<86, 87, 99>>, <<98, 86, 99>>, <<87, 88, 100>>, <<99, 87,
        100>>, <<88, 89, 101>>, <<100, 88, 101>>, <<89, 90, 102>>, <<101, 89, 102>>, <<90, 91,
        103>>, <<102, 90, 103>>, <<91, 92, 104>>, <<103, 91, 104>>, <<92, 93, 105>>, <<104, 92,
        105>>, <<93, 94, 106>>, <<105, 93, 106>>, <<94, 95, 107>>, <<106, 94, 107>>, <<95, 96,
        108>>, <<107, 95, 108>>, <<97, 98, 109>>, <<98, 99, 110>>, <<109, 98, 110>>, <<99, 100,
        111>>, <<110, 99, 111>>, <<100, 101, 112>>, <<111, 100, 112>>, <<101, 102, 113>>, <<112,
        101, 113>>, <<102, 103, 114>>, <<113, 102, 114>>, <<103, 104, 115>>, <<114, 103, 115>>,
        <<104, 105, 116>>, <<115, 104, 116>>, <<105, 106, 117>>, <<116, 105, 117>>, <<106, 107,
        118>>, <<117, 106, 118>>, <<107, 108, 119>>, <<118, 107, 119>>, <<108, 96, 120>>, <<119,
        108, 120>>, <<97, 109, 121>>, <<109, 110, 122>>, <<121, 109, 122>>, <<110, 111, 123>>,
        <<122, 110, 123>>, <<122, 123, 124>>, <<111, 112, 124>>, <<123, 111, 124>>, <<112, 113,
        125>>, <<124, 112, 125>>, <<113, 114, 126>>, <<125, 113, 126>>, <<114, 115, 127>>,
        <<126, 114, 127>>, <<126, 127, 128>>, <<115, 116, 128>>, <<127, 115, 128>>, <<116, 117,
        129>>, <<128, 116, 129>>, <<128, 129, 130>>, <<117, 118, 130>>, <<129, 117, 130>>,
        <<118, 119, 131>>, <<130, 118, 131>>, <<119, 120, 132>>, <<131, 119, 132>> >>,
      valid |-> { 6, 7, 8, 9, 10, 11, 12, 13, 14, 15, 16, 17, 18, 19, 20, 21, 22, 23, 24, 25,
        26, 27, 28, 29, 30, 31, 32, 33, 34, 35, 36, 37, 38, 39, 40, 41, 42, 43, 44, 45, 46, 47,
        48, 49, 50, 51, 52, 53, 54, 55, 56, 57, 58, 59, 60, 61, 62, 63, 64, 65, 66, 67, 68, 69,
        70, 71, 72, 73, 74, 75, 76, 77, 78, 79, 80, 81, 82, 83, 84, 85, 86, 87, 88, 89, 90, 91,
        92, 93, 94, 95, 96, 97, 98, 99, 100, 101, 102, 103, 104, 105, 106, 107, 108, 109, 110,
        111, 112, 113, 114, 115, 116, 117, 118, 119, 121, 122, 123, 124, 125, 126, 127, 128,
        129, 130, 131, 132, 133, 134, 135, 136, 137, 138, 139, 140, 141, 142, 143, 144, 145,
        146, 147, 148, 149, 150, 151, 152, 153, 154, 155, 156, 157, 158, 159, 160, 161, 162,
        163, 164, 165, 166, 167, 168, 169, 170, 171, 172, 173, 174, 175, 176, 177, 178, 179,
        180, 181, 182, 183, 184, 185, 186, 187, 188, 189, 190, 191, 192, 193, 194, 195, 196,
        197, 198, 199, 200, 201, 202, 203, 204, 205, 206, 207, 208, 209, 210, 211, 212, 213,
        214, 215, 216, 217, 219, 220, 221, 222, 223, 224, 225, 226, 228, 229, 230, 231, 233,
        234, 235, 236, 237, 238 }] >>


ShapeGraphs == AsTuple([sc \in DOMAIN ShapeScenes |-> buildVoronoi(ShapeScenes[sc])])

\* Set.add and Set.delete.
SetAdd(set, x) == IF x \in Range(set) THEN set ELSE Append(set, x)

SetDelete(set, x) == Filter(set, AsTuple([k \in DOMAIN set |-> set[k] # x]))

\* validTiles.has(n) && !waterOnlyTiles.has(n)
Eligible(graph, n) == n \in graph.validTiles /\ n \notin graph.waterOnlyTiles

EligibleNeighbors(graph, t) ==
  Filter(graph.tileNeighbors[t],
         AsTuple([k \in DOMAIN graph.tileNeighbors[t] |->
                    Eligible(graph, graph.tileNeighbors[t][k])]))

\* The first element of a sequence of tiles at the least (greatest, for
\* sign = -1) distance from a position.
FirstNearest(points, tiles, from, sign) ==
  tiles[CHOOSE k \in DOMAIN tiles :
          /\ \A j \in DOMAIN tiles : sign * Dist2(points[tiles[k]], from)
                                       <= sign * Dist2(points[tiles[j]], from)
          /\ \A j \in 1..(k - 1) : sign * Dist2(points[tiles[j]], from)
                                     > sign * Dist2(points[tiles[k]], from)]

\* findCenterTile: the eligible tile closest to the canvas centre; index 0
\* (here 1) when there is no eligible tile.
findCenterTile(scene, graph) ==
  With(IndicesWhere(AsTuple([i \in DOMAIN scene.points |-> Eligible(graph, i)])),
       LAMBDA candidates :
    IF candidates = << >> THEN 1
    ELSE FirstNearest(scene.points, candidates,
                      << scene.width \div 2, scene.height \div 2 >>, 1))

\* mapType 'standard-catan': the centre and two rings of eligible tiles.
StandardLand(graph, centerTile) ==
  With(Dedupe(<< centerTile >> \o EligibleNeighbors(graph, centerTile)), LAMBDA inner :
  With(EligibleNeighbors(graph, centerTile), LAMBDA ring1 :
    inner \o Dedupe(Concat(AsTuple([k \in DOMAIN ring1 |->
               Filter(EligibleNeighbors(graph, ring1[k]),
                      AsTuple([j \in DOMAIN EligibleNeighbors(graph, ring1[k]) |->
                                 EligibleNeighbors(graph, ring1[k])[j] \notin Range(inner)]))
             ])))))

\* The orders in which the first k elements can come out of a shuffle.
Orders(set, k) ==
  { s \in [1..k -> set] : \A i, j \in 1..k : i # j => s[i] # s[j] }

\* A growth loop that tests landTiles.size <= numTiles before it adds.
GrowthsPastCap(graph, land, current, numTiles) ==
  With(Range(EligibleNeighbors(graph, current)) \ Range(land), LAMBDA new :
    Orders(new, IF Cardinality(new) < numTiles - Len(land) + 1
                  THEN Cardinality(new) ELSE numTiles - Len(land) + 1))

\* What one pass of the growth loop may add: the neighbours of the current
\* tile that are eligible and not yet land, in shuffled order, as long as
\* landTiles.size < numTiles.
Growths(graph, land, current, numTiles) ==
  With(Range(EligibleNeighbors(graph, current)) \ Range(land), LAMBDA new :
    Orders(new, IF Cardinality(new) < numTiles - Len(land)
                  THEN Cardinality(new) ELSE numTiles - Len(land)))

\* shoreTiles: the land tiles with a neighbour that is not land.
ShoreTiles(graph, land) ==
  Filter(land, AsTuple([k \in DOMAIN land |->
                 \E j \in DOMAIN graph.tileNeighbors[land[k]] :
                   graph.tileNeighbors[land[k]][j] \notin Range(land)]))

\* What the furthest shore tile offers for accretion.
NonLandNeighbors(graph, land, t) ==
  Range(EligibleNeighbors(graph, t)) \ Range(land)

\* One erosion/accretion round.  pick is the tile Math.random chooses
\* among nonLandNeighbors (NoId when there is none).
ErosionOutcome(scene, graph, rootTile, land, pick) ==
  With(ShoreTiles(graph, land), LAMBDA shoreTiles :
    IF shoreTiles = << >> THEN [land |-> land, broke |-> TRUE]
    ELSE
      With(FirstNearest(scene.points, shoreTiles, scene.points[rootTile], 1),
           LAMBDA closestShore :
      With(SetDelete(land, closestShore), LAMBDA eroded :
      With(ShoreTiles(graph, eroded), LAMBDA newShoreTiles :
        IF newShoreTiles = << >>
          THEN [land |-> SetAdd(eroded, closestShore), broke |-> TRUE]
        ELSE IF pick = NoId THEN [land |-> eroded, broke |-> FALSE]
        ELSE [land |-> SetAdd(eroded, pick), broke |-> FALSE]))))

\* The tiles pick may be in a round: the eligible non-land neighbours of the
\* furthest shore tile after the erosion, NoId when the round breaks or has
\* none.
ErosionPicks(scene, graph, rootTile, land) ==
  With(ShoreTiles(graph, land), LAMBDA shoreTiles :
    IF shoreTiles = << >> THEN {NoId}
    ELSE
      With(SetDelete(land, FirstNearest(scene.points, shoreTiles,
                                        scene.points[rootTile], 1)), LAMBDA eroded :
      With(ShoreTiles(graph, eroded), LAMBDA newShoreTiles :
        IF newShoreTiles = << >> THEN {NoId}
        ELSE With(NonLandNeighbors(graph, eroded,
                    FirstNearest(scene.points, newShoreTiles,
                                 scene.points[rootTile], -1)), LAMBDA offered :
               IF offered = {} THEN {NoId} ELSE offered))))

\* "Determine water tiles" without the test that the neighbour is no land.
DetermineWater_WithLand(graph, land) ==
  Dedupe(Concat(AsTuple([k \in DOMAIN land |->
    Filter(graph.tileNeighbors[land[k]],
           AsTuple([j \in DOMAIN graph.tileNeighbors[land[k]] |->
                      graph.tileNeighbors[land[k]][j] \in graph.validTiles]))])))

\* "Determine water tiles": the valid neighbours of land that are not land.
DetermineWater(graph, land) ==
  Dedupe(Concat(AsTuple([k \in DOMAIN land |->
    Filter(graph.tileNeighbors[land[k]],
           AsTuple([j \in DOMAIN graph.tileNeighbors[land[k]] |->
                      /\ graph.tileNeighbors[land[k]][j] \notin Range(land)
                      /\ graph.tileNeighbors[land[k]][j] \in graph.validTiles]))])))

\* hasNonAdjacentWater of tile i: two water neighbours whose positions in
\* tileNeighbors[i] differ by neither 1 nor neighbors.length - 1.
HasNonAdjacentWater(graph, water, i) ==
  LET neighbors == graph.tileNeighbors[i]
      waterNeighborIndices == { j \in DOMAIN neighbors : neighbors[j] \in Range(water) }
  IN \E a, b \in waterNeighborIndices :
       a < b /\ b - a # 1 /\ b - a # Len(neighbors) - 1

\* tilesToFix of the repair step.
CollectTilesToFix(scene, graph, water) ==
  IndicesWhere(AsTuple([i \in DOMAIN scene.points |->
    /\ i \in graph.validTiles
    /\ i \notin Range(water)
    /\ Len(graph.tileNeighbors[i]) >= 2
    /\ HasNonAdjacentWater(graph, water, i)]))

\* The second loop of the repair step, from entry k of tilesToFix on.
RECURSIVE FixTiles(_, _, _, _, _)
FixTiles(graph, fix, k, land, water) ==
  IF k > Len(fix) THEN [land |-> land, water |-> water]
  ELSE LET neighbors == graph.tileNeighbors[fix[k]]
           allWater == \A j \in DOMAIN neighbors : neighbors[j] \in Range(water)
           hasLand == \E j \in DOMAIN neighbors : neighbors[j] \in Range(land)
       IN IF allWater
            THEN FixTiles(graph, fix, k + 1, SetDelete(land, fix[k]), SetAdd(water, fix[k]))
          ELSE IF hasLand
            THEN FixTiles(graph, fix, k + 1, SetAdd(land, fix[k]), water)
          ELSE FixTiles(graph, fix, k + 1, land, water)

\* Rounds of erosion a caller may ask for.
MaxRounds == 7
\* Land tiles a caller may ask for.
MaxTiles == 3

MapTypes == {"standard-catan", "expanded-hex", "delaunay-polygon"}

NoShapeOptions == [mapType |-> "none", numTiles |-> 0, erosionRounds |-> 0, centerTile |-> 0]

ShapeFrame ==
  UNCHANGED << callVars, probeVars, previous, gameVars, regVars, mergeVars,
               walkVars, tradeVars >>

\* The stage starts: centre tile, and for 'standard-catan' the two rings.
StartShaping ==
  /\ shapePc = "idle"
  /\ \E sc \in DOMAIN ShapeScenes, mapType \in MapTypes, numTiles \in 1..MaxTiles,
        erosionRounds \in 0..MaxRounds :
       \E centerTile \in {findCenterTile(ShapeScenes[sc], ShapeGraphs[sc])} :
         /\ shapeScene' = sc
         /\ shapeOptions' = [mapType |-> mapType, numTiles |-> numTiles,
                             erosionRounds |-> erosionRounds, centerTile |-> centerTile]
         /\ IF mapType = "standard-catan"
              THEN /\ landTiles' = StandardLand(ShapeGraphs[sc], centerTile)
                   /\ frontier' = << >>
                   /\ shapePc' = "erode"
              ELSE /\ landTiles' = << centerTile >>
                   /\ frontier' = << centerTile >>
                   /\ shapePc' = "grow"
  /\ erosionRound' = 0
  /\ waterTiles' = << >>
  /\ tilesToFix' = << >>
  /\ ShapeFrame

\* One pass of "while (landTiles.size < numTiles && frontier.length > 0)".
Grow ==
  /\ shapePc = "grow"
  /\ Len(landTiles) < shapeOptions.numTiles
  /\ frontier # << >>
  /\ \E randomIdx \in DOMAIN frontier :
       \E added \in Growths(ShapeGraphs[shapeScene], landTiles, frontier[randomIdx],
                            shapeOptions.numTiles) :
         /\ landTiles' = landTiles \o added
         /\ frontier' = SetDelete(frontier, frontier[randomIdx]) \o added
  /\ UNCHANGED << shapePc, shapeScene, shapeOptions, erosionRound, waterTiles, tilesToFix >>
  /\ ShapeFrame

\* The growth loop ends.
EndGrowth ==
  /\ shapePc = "grow"
  /\ ~(Len(landTiles) < shapeOptions.numTiles /\ frontier # << >>)
  /\ shapePc' = "erode"
  /\ UNCHANGED << shapeScene, shapeOptions, landTiles, frontier, erosionRound, waterTiles,
                  tilesToFix >>
  /\ ShapeFrame

\* One erosion/accretion round.
Erode ==
  /\ shapePc = "erode"
  /\ erosionRound < shapeOptions.erosionRounds
  /\ \E pick \in ErosionPicks(ShapeScenes[shapeScene], ShapeGraphs[shapeScene],
                              shapeOptions.centerTile, landTiles) :
       \E out \in {ErosionOutcome(ShapeScenes[shapeScene], ShapeGraphs[shapeScene],
                                  shapeOptions.centerTile, landTiles, pick)} :
         /\ landTiles' = out.land
         /\ erosionRound' = IF out.broke THEN shapeOptions.erosionRounds
                            ELSE erosionRound + 1
  /\ UNCHANGED << shapePc, shapeScene, shapeOptions, frontier, waterTiles, tilesToFix >>
  /\ ShapeFrame

\* After the rounds: water tiles, then the repair of isolated tiles.
Classify ==
  /\ shapePc = "erode"
  /\ erosionRound >= shapeOptions.erosionRounds
  /\ \E water \in {DetermineWater(ShapeGraphs[shapeScene], landTiles)} :
       \E fix \in {CollectTilesToFix(ShapeScenes[shapeScene], ShapeGraphs[shapeScene],
                                     water)} :
         \E out \in {FixTiles(ShapeGraphs[shapeScene], fix, 1, landTiles, water)} :
           /\ tilesToFix' = fix
           /\ landTiles' = out.land
           /\ waterTiles' = out.water
  /\ shapePc' = "done"
  /\ UNCHANGED << shapeScene, shapeOptions, frontier, erosionRound >>
  /\ ShapeFrame

\* generateMapData returns; the next call resets its state.
ReturnShape ==
  /\ shapePc = "done"
  /\ shapePc' = "idle"
  /\ shapeScene' = 0
  /\ shapeOptions' = NoShapeOptions
  /\ landTiles' = << >>
  /\ frontier' = << >>
  /\ erosionRound' = 0
  /\ waterTiles' = << >>
  /\ tilesToFix' = << >>
  /\ ShapeFrame

NextShape ==
  \/ StartShaping
  \/ Grow
  \/ EndGrowth
  \/ Erode
  \/ Classify
  \/ ReturnShape

\* The stage is straight-line code: a loop that can go on does.
SpecShape == Init /\ [][NextShape]_vars /\ WF_vars(Grow \/ EndGrowth)

(***************************************************************************)
(* Graph assembly on given visualization data (map/mapgenBridge:           *)
(* convertVizDataToMapData is exported and takes any VisualizationData).   *)
(* The data drawn here is one hexagonal land tile whose six blue nodes are *)
(* joined by six green edges; a blue node can also be listed by three more *)
(* land tiles, which makes it touch four tiles.                            *)
(***************************************************************************)
\* Positions of the six blue nodes around the tile at the origin, in
\* counter-clockwise order from angle 0.
HexCorner == << <<2, 0>>, <<1, 2>>, <<-1, 2>>, <<-2, 0>>, <<-1, -2>>, <<1, -2>> >>

\* At most this many blue nodes are listed by four land tiles.
MaxShared == 2

SharedSets == { s \in SUBSET (DOMAIN HexCorner) : Cardinality(s) <= MaxShared }

\* The six edges of the ring, the first one leaving corner first, listed
\* forwards or backwards around the tile.
RingEdges(first, backwards) ==
  AsTuple([k \in DOMAIN HexCorner |->
    With(IF backwards THEN ((first + 5 - k) % 6) + 1 ELSE ((first + k - 2) % 6) + 1,
         LAMBDA a : [from |-> a, to |-> (a % 6) + 1])])

VizDataAround(shared, first, backwards) ==
  With(Filter(AsTuple([k \in DOMAIN HexCorner |-> k]),
              AsTuple([k \in DOMAIN HexCorner |-> k \in shared])), LAMBDA listed :
    [tiles |-> << [id |-> 1, position |-> <<0, 0>>,
                   blueNodes |-> AsTuple([k \in DOMAIN HexCorner |-> k]), isLand |-> TRUE] >>
               \o AsTuple([j \in 1..(3 * Len(listed)) |->
                    With(listed[((j - 1) \div 3) + 1], LAMBDA k :
                      [id |-> 1 + j,
                       position |-> << 3 * HexCorner[k][1], 3 * HexCorner[k][2] >>,
                       blueNodes |-> << k >>, isLand |-> TRUE])]),
     blueNodes |-> AsTuple([k \in DOMAIN HexCorner |->
                     [id |-> k, position |-> HexCorner[k]]]),
     greenEdges |-> RingEdges(first, backwards)])

WalkFrame ==
  UNCHANGED << callVars, probeVars, previous, gameVars, regVars, mergeVars, shapeVars,
               tradeVars >>

\* A client holds visualization data.
ReceiveVizData ==
  /\ walkPc = "idle"
  /\ \E shared \in SharedSets, first \in DOMAIN HexCorner, backwards \in BOOLEAN :
       walkViz' = VizDataAround(shared, first, backwards)
  /\ walkPc' = "given"
  /\ UNCHANGED walkMap
  /\ WalkFrame

\* convertVizDataToMapData(vizData, seed).
ConvertVizData ==
  /\ walkPc = "given"
  /\ \E seed \in Seeds : walkMap' = convertVizDataToMapData(walkViz, seed)
  /\ walkPc' = "assembled"
  /\ UNCHANGED walkViz
  /\ WalkFrame

ReturnMapData ==
  /\ walkPc = "assembled"
  /\ walkPc' = "idle"
  /\ walkViz' = NoViz
  /\ walkMap' = NoMap
  /\ WalkFrame

NextWalk ==
  \/ ReceiveVizData
  \/ ConvertVizData
  \/ ReturnMapData

SpecWalk == Init /\ [][NextWalk]_vars

(***************************************************************************)
(* Trading (core/trading).  An offer is a record of two entry lists, the   *)
(* Object.entries of its "current" and "future" parts; a proposal's        *)
(* createdAt is left out, nothing modelled reads it.  The functions get a  *)
(* GameState of which only players, currentPlayerIdx, tradeProposals and   *)
(* options.allowFuturesTrades are read.                                    *)
(***************************************************************************)
RECURSIVE SumAmounts(_)
\* Object.values(part).reduce((sum, val) => sum + (val || 0), 0)
SumAmounts(entries) ==
  IF entries = << >> THEN 0 ELSE Head(entries)[2] + SumAmounts(Tail(entries))

getTotalResourceCount(offer) == SumAmounts(offer.current) + SumAmounts(offer.future)

\* The reason validateTradeOffer rejects the two offers with, or "ok".
validateTradeOffer(offer1, offer2, allowFutures) ==
  IF getTotalResourceCount(offer1) = 0 \/ getTotalResourceCount(offer2) = 0
    THEN "Both sides must offer at least one resource"
  ELSE IF \E part \in {offer1.current, offer1.future, offer2.current, offer2.future} :
            \E k \in DOMAIN part : part[k][2] < 0
    THEN "All resource counts must be positive integers"
  ELSE IF ~allowFutures /\ (Len(offer1.future) > 0 \/ Len(offer2.future) > 0)
    THEN "Futures trading is not enabled"
  ELSE "ok"

\* A check that lets every offer pass.
hasResourcesForOffer_Unchecked(player, offer) == TRUE

\* "if (amount && player.resources[resource] < amount) return false"
hasResourcesForOffer(player, offer) ==
  \A k \in DOMAIN offer.current :
    ~(offer.current[k][2] # 0 /\ player.resources[offer.current[k][1]] < offer.current[k][2])

NoProposal ==
  [id |-> NoId, proposerId |-> NoId, proposerOffer |-> [current |-> << >>, future |-> << >>],
   recipientId |-> NoId, recipientOffer |-> [current |-> << >>, future |-> << >>],
   status |-> "none", agreedBy |-> << >>, declinedBy |-> << >>, counterOffers |-> << >>]

\* createTradeProposal; id is what generateId('trade') gives.
createTradeProposal(state, proposerId, proposerOffer, recipientId, recipientOffer, id) ==
  IF FindById(state.players, proposerId) = 0 \/ FindById(state.players, recipientId) = 0
    THEN [valid |-> FALSE, reason |-> "Invalid player IDs", proposal |-> NoProposal]
  ELSE With(validateTradeOffer(proposerOffer, recipientOffer, state.allowFuturesTrades),
            LAMBDA validation :
    IF validation # "ok"
      THEN [valid |-> FALSE, reason |-> validation, proposal |-> NoProposal]
    ELSE IF ~hasResourcesForOffer(state.players[FindById(state.players, proposerId)],
                                  proposerOffer)
      THEN [valid |-> FALSE, reason |-> "Proposer does not have enough resources",
            proposal |-> NoProposal]
    ELSE [valid |-> TRUE, reason |-> "ok",
          proposal |-> [id |-> id, proposerId |-> proposerId,
                        proposerOffer |-> proposerOffer, recipientId |-> recipientId,
                        recipientOffer |-> recipientOffer, status |-> "pending",
                        agreedBy |-> << proposerId >>, declinedBy |-> << >>,
                        counterOffers |-> << >>]])

\* agreeToTrade: the result and the state argument after the call.
agreeToTrade(state, proposalId, playerId) ==
  With(FindById(state.tradeProposals, proposalId), LAMBDA i :
    IF i = 0 THEN [ok |-> FALSE, reason |-> "Trade proposal not found", state |-> state]
    ELSE IF state.tradeProposals[i].status # "pending"
      THEN [ok |-> FALSE, reason |-> "Trade proposal is no longer pending", state |-> state]
    ELSE IF /\ playerId # state.tradeProposals[i].proposerId
            /\ playerId # state.tradeProposals[i].recipientId
      THEN [ok |-> FALSE, reason |-> "Player is not involved in this trade", state |-> state]
    ELSE [ok |-> TRUE, reason |-> "ok",
          state |-> [state EXCEPT
            !.tradeProposals[i].agreedBy = SetAdd(@, playerId),
            !.tradeProposals[i].declinedBy = SetDelete(@, playerId)]])

\* declineTrade: the result and the state argument after the call.
declineTrade(state, proposalId, playerId) ==
  With(FindById(state.tradeProposals, proposalId), LAMBDA i :
    IF i = 0 THEN [ok |-> FALSE, reason |-> "Trade proposal not found", state |-> state]
    ELSE IF state.tradeProposals[i].status # "pending"
      THEN [ok |-> FALSE, reason |-> "Trade proposal is no longer pending", state |-> state]
    ELSE With([state EXCEPT
                 !.tradeProposals[i].declinedBy = SetAdd(@, playerId),
                 !.tradeProposals[i].agreedBy = SetDelete(@, playerId)], LAMBDA marked :
           With(marked.tradeProposals[i], LAMBDA proposal :
             [ok |-> TRUE, reason |-> "ok",
              state |-> IF {proposal.proposerId, proposal.recipientId}
                             \subseteq Range(proposal.declinedBy)
                          THEN [marked EXCEPT !.tradeProposals = RemoveAt(@, i)]
                          ELSE marked])))

\* "for (const [resource, amount] of Object.entries(part))": each amount
\* leaves players[from] and then arrives at players[to].
RECURSIVE Transfer(_, _, _, _)
Transfer(players, entries, from, to) ==
  IF entries = << >> THEN players
  ELSE With(Head(entries), LAMBDA entry :
         With([players EXCEPT ![from].resources[entry[1]] = @ - entry[2]], LAMBDA taken :
           With([taken EXCEPT ![to].resources[entry[1]] = @ + entry[2]], LAMBDA given :
             With(Tail(entries), LAMBDA rest : Transfer(given, rest, from, to)))))

\* "futureResources[resource] = (futureResources[resource] || 0) + amount"
RECURSIVE Commit(_, _, _)
Commit(players, entries, who) ==
  IF entries = << >> THEN players
  ELSE With(Head(entries), LAMBDA entry :
         With([players EXCEPT ![who].futureResources[entry[1]] = @ + entry[2]],
              LAMBDA committed :
                With(Tail(entries), LAMBDA rest : Commit(committed, rest, who))))

\* What executeTrade returns without a newState; state is its argument
\* after the call, which it never writes to.
Failed(state, reason) ==
  [success |-> FALSE, reason |-> reason, newState |-> NoTradeState, state |-> state]

\* executeTrade: success, the reason of a failure, newState, and the state
\* argument after the call.
executeTrade(state, proposalId) ==
  With(FindById(state.tradeProposals, proposalId), LAMBDA i :
    IF i = 0 THEN Failed(state, "Trade proposal not found")
    ELSE With(state.tradeProposals[i], LAMBDA proposal :
      IF \/ proposal.proposerId \notin Range(proposal.agreedBy)
         \/ proposal.recipientId \notin Range(proposal.agreedBy)
        THEN Failed(state, "Both players must agree before executing")
      ELSE IF /\ state.players[state.currentPlayerIdx + 1].id # proposal.proposerId
              /\ state.players[state.currentPlayerIdx + 1].id # proposal.recipientId
        THEN Failed(state, "Trade can only be executed on one of the involved players' turn")
      ELSE With(<< FindById(state.players, proposal.proposerId),
                   FindById(state.players, proposal.recipientId) >>, LAMBDA pr :
        IF ~hasResourcesForOffer(state.players[pr[1]], proposal.proposerOffer)
          THEN Failed(state, "Proposer no longer has required resources")
        ELSE IF ~hasResourcesForOffer(state.players[pr[2]], proposal.recipientOffer)
          THEN Failed(state, "Recipient no longer has required resources")
        ELSE
          With(Transfer(state.players, proposal.proposerOffer.current, pr[1], pr[2]),
               LAMBDA p1 :
          With(Transfer(p1, proposal.recipientOffer.current, pr[2], pr[1]), LAMBDA p2 :
          With(Commit(p2, proposal.proposerOffer.future, pr[1]), LAMBDA p3 :
          With(Commit(p3, proposal.recipientOffer.future, pr[2]), LAMBDA p4 :
            [success |-> TRUE, reason |-> "ok", state |-> state,
             newState |-> [state EXCEPT !.players = p4,
                                        !.tradeProposals = RemoveAt(@, i)]])))))))

\* Bounds of the trading sessions explored.
MaxProposals == 1
MaxTradeIds == 2

TraderIds == 1..3
\* An id no player has.
Stranger == Cardinality(TraderIds) + 1

Holding(ore, wood) ==
  [r \in ResourceNames |-> IF r = "ore" THEN ore ELSE IF r = "wood" THEN wood ELSE 0]

Trader(id, resources) ==
  [id |-> id, resources |-> resources, futureResources |-> NoResources]

\* The hands the players start a session with.
Hands == { << Holding(1, 0), Holding(0, 2), Holding(0, 0) >> }

\* The offers a client writes.
Offers ==
  { [current |-> << <<"ore", 1>> >>, future |-> << >>],
    [current |-> << <<"wood", 2>> >>, future |-> << >>],
    [current |-> << >>, future |-> << <<"ore", 1>> >>],
    [current |-> << <<"wood", 2>>, <<"ore", -1>> >>, future |-> << >>] }

TradeFrame ==
  UNCHANGED << callVars, probeVars, previous, gameVars, regVars, mergeVars, shapeVars,
               walkVars >>

\* A client holds a game state in which trading goes on.
OpenTrading ==
  /\ tradePc = "idle"
  /\ \E hands \in Hands, current \in {0, 2}, allowFutures \in BOOLEAN :
       tradeState' = [players |-> AsTuple([i \in TraderIds |-> Trader(i, hands[i])]),
                      currentPlayerIdx |-> current,
                      tradeProposals |-> << >>,
                      allowFuturesTrades |-> allowFutures]
  /\ tradePc' = "open"
  /\ tradeResult' = NoTradeResult
  /\ nextTradeId' = 1
  /\ TradeFrame

\* createTradeProposal; the client adds a valid proposal to
\* state.tradeProposals, where the other trading functions look it up.
Propose ==
  /\ tradePc = "open"
  /\ Len(tradeState.tradeProposals) < MaxProposals
  /\ nextTradeId <= MaxTradeIds
  /\ \E proposerId \in TraderIds \cup {Stranger}, recipientId \in {1, 2},
        proposerOffer \in Offers, recipientOffer \in Offers :
       \E r \in {createTradeProposal(tradeState, proposerId, proposerOffer,
                                     recipientId, recipientOffer, nextTradeId)} :
         /\ tradeResult' = [op |-> "createTradeProposal", proposalId |-> r.proposal.id,
                            playerId |-> proposerId, ok |-> r.valid, reason |-> r.reason,
                            newState |-> NoTradeState]
         /\ tradeState' = IF r.valid
                            THEN [tradeState EXCEPT !.tradeProposals = Append(@, r.proposal)]
                            ELSE tradeState
         /\ nextTradeId' = IF r.valid THEN nextTradeId + 1 ELSE nextTradeId
  /\ UNCHANGED tradePc
  /\ TradeFrame

\* The proposal ids a client can name: the ones handed out so far.
KnownTradeIds == 1..(nextTradeId - 1)

Agree ==
  /\ tradePc = "open"
  /\ \E proposalId \in KnownTradeIds, playerId \in TraderIds :
       \E r \in {agreeToTrade(tradeState, proposalId, playerId)} :
         /\ tradeResult' = [op |-> "agreeToTrade", proposalId |-> proposalId,
                            playerId |-> playerId, ok |-> r.ok, reason |-> r.reason,
                            newState |-> NoTradeState]
         /\ tradeState' = r.state
  /\ UNCHANGED << tradePc, nextTradeId >>
  /\ TradeFrame

Decline ==
  /\ tradePc = "open"
  /\ \E proposalId \in KnownTradeIds, playerId \in TraderIds :
       \E r \in {declineTrade(tradeState, proposalId, playerId)} :
         /\ tradeResult' = [op |-> "declineTrade", proposalId |-> proposalId,
                            playerId |-> playerId, ok |-> r.ok, reason |-> r.reason,
                            newState |-> NoTradeState]
         /\ tradeState' = r.state
  /\ UNCHANGED << tradePc, nextTradeId >>
  /\ TradeFrame

\* executeTrade; the client goes on with newState when there is one.
Execute ==
  /\ tradePc = "open"
  /\ \E proposalId \in KnownTradeIds :
       \E r \in {executeTrade(tradeState, proposalId)} :
         /\ tradeResult' = [op |-> "executeTrade", proposalId |-> proposalId,
                            playerId |-> NoId, ok |-> r.success, reason |-> r.reason,
                            newState |-> r.newState]
         /\ tradeState' = IF r.success THEN r.newState ELSE r.state
  /\ UNCHANGED << tradePc, nextTradeId >>
  /\ TradeFrame

\* Between two trading calls the game goes on: a steal of moveRobber
\* (core/robber) by the third player moves one resource out of a trader's
\* hand into the thief's.
Steal ==
  /\ tradePc = "open"
  /\ \E victim \in {1, 2}, r \in {"ore", "wood"} :
       /\ tradeState.players[victim].resources[r] > 0
       /\ tradeState' = [tradeState EXCEPT !.players[victim].resources[r] = @ - 1,
                                           !.players[3].resources[r] = @ + 1]
  /\ tradeResult' = [NoTradeResult EXCEPT !.op = "moveRobber", !.ok = TRUE]
  /\ UNCHANGED << tradePc, nextTradeId >>
  /\ TradeFrame

CloseTrading ==
  /\ tradePc = "open"
  /\ tradePc' = "idle"
  /\ tradeState' = NoTradeState
  /\ tradeResult' = NoTradeResult
  /\ nextTradeId' = 1
  /\ TradeFrame

NextTrade ==
  \/ OpenTrading
  \/ Propose
  \/ Agree
  \/ Decline
  \/ Execute
  \/ Steal
  \/ CloseTrading

SpecTrade == Init /\ [][NextTrade]_vars

(***************************************************************************)
(* Properties.                                                             *)
(***************************************************************************)
Done == pc \in {"returned", "threw"}
HoldsMap == pc \in {"generated", "fallback", "returned"} \/ (pc = "threw" /\ results # << >>)
IsValidMap(m) == ~validateMap(m).threw /\ validateMap(m).valid

NodeDegreesInRange(m) ==
  \A i \in DOMAIN m.nodes : Len(m.nodes[i].tiles) >= 1 /\ Len(m.nodes[i].tiles) <= 3

HasDuplicatePair(m) ==
  \E i, j \in DOMAIN m.edges :
    i < j /\ {m.edges[i].nodeA, m.edges[i].nodeB} = {m.edges[j].nodeA, m.edges[j].nodeB}

HasSelfLoop(m) == \E i \in DOMAIN m.edges : m.edges[i].nodeA = m.edges[i].nodeB

HasErrorOfKind(kinds) == \E e \in report.errors : e.kind \in kinds

\* C1: a map that generateMap returns passes validateMap, and a call that
\* returns no map ends with an error.
C1_ReturnedMapIsValid ==
  /\ pc = "returned" => IsValidMap(mapData)
  /\ pc = "threw" => error \in {"Error", "TypeError", "ValidationFailed"}

\* An irregular map that passed its validation was returned.
C1_Witness ==
  /\ pc = "returned"
  /\ options.mapType = "expanded-delaunay"
  /\ results = << "ok" >>
  /\ Len(mapData.tiles) > 1

\* C2: a failed validation of an irregular map is followed by exactly one
\* call of the hex generator with the same tile count and seed, whose result
\* is validated again and whose failure ends the call with that error; the
\* other map types never fall back and are validated once.
C2_OneFallbackForDelaunayOnly ==
  /\ Len(fallbackCalls) <= 1
  /\ Len(results) <= 2
  /\ options.mapType # "expanded-delaunay" =>
       /\ fallbackCalls = << >>
       /\ Len(results) <= 1
       /\ (results # << >> /\ results[1] # "ok") => (pc = "threw" /\ error = results[1])
  /\ fallbackCalls # << >> => (Len(results) = 2 /\ results[1] # "ok")
  /\ (options.mapType = "expanded-delaunay" /\ Done /\ results # << >> /\ results[1] # "ok") =>
       /\ fallbackCalls = << << OrDefault(options.delaunayTileCount), options.seed >> >>
       /\ Len(results) = 2
       /\ mapData = generateExpandedHexMap(OrDefault(options.delaunayTileCount), options.seed)
       /\ (results[2] = "ok" => pc = "returned")
       /\ (results[2] # "ok" => (pc = "threw" /\ error = results[2]))

\* The fallback ran after a failed validation and its own validation failed.
C2_Witness ==
  /\ pc = "threw"
  /\ options.mapType = "expanded-delaunay"
  /\ Len(fallbackCalls) = 1
  /\ results = << "ValidationFailed", "ValidationFailed" >>

\* C3: every expanded-delaunay request ends by returning a valid map with
\* at least one tile.
C3_DelaunayAlwaysReturns ==
  (options.mapType = "expanded-delaunay" /\ Done) =>
    (pc = "returned" /\ Len(mapData.tiles) >= 1 /\ IsValidMap(mapData))

\* C4: a request for 30 tiles (expanded-hex or expanded-delaunay) returns a
\* map with at least 25 tiles.
C4_ThirtyTilesGiveAtLeast25 ==
  (/\ Done
   /\ \/ options.mapType = "expanded-hex" /\ options.expandedMapSize = 30
      \/ options.mapType = "expanded-delaunay" /\ options.delaunayTileCount = 30) =>
    (pc = "returned" /\ Len(mapData.tiles) >= 25)

\* C5: the standard map has exactly 19 tiles, passes validation and has
\* exactly one desert, which has no dice number and holds the robber; every
\* other tile has a dice number in 2..12 other than 7 and no robber.
C5_StandardMap ==
  (options.mapType = "standard" /\ HoldsMap) =>
    /\ Len(mapData.tiles) = 19
    /\ IsValidMap(mapData)
    /\ Cardinality({ t \in DOMAIN mapData.tiles : mapData.tiles[t].resource = "desert" }) = 1
    /\ \A t \in DOMAIN mapData.tiles :
         IF mapData.tiles[t].resource = "desert"
           THEN mapData.tiles[t].diceNumber = 0 /\ mapData.tiles[t].robberPresent
           ELSE /\ mapData.tiles[t].diceNumber \in (2..12) \ {7}
                /\ ~mapData.tiles[t].robberPresent

\* C6: every node of a map that a generator (hex or irregular) produced
\* references at least 1 and at most 3 tiles.
C6_GeneratedNodeDegrees == HoldsMap => NodeDegreesInRange(mapData)

\* C7: in a returned map every interior tile has shape = number of nodes,
\* which is 5, 6 or 7, and every boundary tile has at least 3 nodes.
C7_ReturnedTileShapes ==
  pc = "returned" =>
    \A t \in DOMAIN mapData.tiles :
      IF mapData.tiles[t].isBoundary
        THEN Len(mapData.tiles[t].nodes) >= 3
        ELSE /\ mapData.tiles[t].shape = Len(mapData.tiles[t].nodes)
             /\ mapData.tiles[t].shape \in {5, 6, 7}

\* C8: in a map that validateMap reports valid, the traversal over shared
\* nodes reaches every tile from whichever tile it starts.
C8_ConnectedFromAnyTile ==
  (probeState = "validated" /\ ~report.threw /\ report.valid) =>
    \A t \in DOMAIN probe.tiles :
      VisitedFrom(probe, probe.tiles[t].id) = IdsOf(probe.tiles)

\* C9: a generated map has no two edges over the same unordered node pair
\* and no edge from a node to itself, and validateMap reports an error for
\* every map that has one: its errors name the duplicate edge or the equal
\* endpoints.
C9_NoDuplicateOrLoopEdges ==
  /\ HoldsMap => (~HasDuplicatePair(mapData) /\ ~HasSelfLoop(mapData))
  /\ (probeState = "validated" /\ HasDuplicatePair(probe)) =>
       (~report.threw /\ ~report.valid /\ HasErrorOfKind({"DuplicateEdge"}))
  /\ (probeState = "validated" /\ HasSelfLoop(probe)) =>
       (~report.threw /\ ~report.valid /\ HasErrorOfKind({"EdgeSameEndpoints"}))

\* C10: validateMap returns a report for every map, with an entry for every
\* check the map violates, and valid exactly when there is no entry.
C10_ReportsEveryViolation ==
  probeState = "validated" =>
    /\ ~report.threw
    /\ report.valid <=> report.errors = {}
    /\ Cardinality(IdsOf(probe.tiles)) # Len(probe.tiles) => HasErrorOfKind({"DuplicateTileIds"})
    /\ ~NodeDegreesInRange(probe) => HasErrorOfKind({"NodeTileCount"})
    /\ (\E i \in DOMAIN probe.nodes : ~(Range(probe.nodes[i].tiles) \subseteq IdsOf(probe.tiles)))
         => HasErrorOfKind({"NodeMissingTile"})
    /\ (\E i \in DOMAIN probe.tiles : ~(Range(probe.tiles[i].nodes) \subseteq IdsOf(probe.nodes)))
         => HasErrorOfKind({"TileMissingNode"})
    /\ (\E i \in DOMAIN probe.tiles :
          ~probe.tiles[i].isBoundary /\ probe.tiles[i].shape # Len(probe.tiles[i].nodes))
         => HasErrorOfKind({"TileShapeNodes"})
    /\ HasSelfLoop(probe) => HasErrorOfKind({"EdgeSameEndpoints"})
    /\ HasDuplicatePair(probe) => HasErrorOfKind({"DuplicateEdge"})
    /\ (probe.tiles # << >>
          /\ VisitedFrom(probe, probe.tiles[1].id) # IdsOf(probe.tiles))
         => HasErrorOfKind({"NotConnected"})

TileListsUnreturnedNode(m) ==
  \E t \in DOMAIN m.tiles : \E n \in DOMAIN m.nodes :
    /\ m.nodes[n].id \in Range(m.tiles[t].nodes)
    /\ m.tiles[t].id \notin Range(m.nodes[n].tiles)

NodeListsUnreturnedTile(m) ==
  \E n \in DOMAIN m.nodes : \E t \in DOMAIN m.tiles :
    /\ m.tiles[t].id \in Range(m.nodes[n].tiles)
    /\ m.nodes[n].id \notin Range(m.tiles[t].nodes)

\* C11: validateMap reports an error when a tile lists a node that does not
\* list the tile back, and also when a node lists a tile that does not list
\* that node.
C11_ReferencesAgreeBothWays ==
  probeState = "validated" =>
    /\ TileListsUnreturnedNode(probe) =>
         (~report.threw /\ ~report.valid /\ HasErrorOfKind({"TileNodeNoBackRef"}))
    /\ NodeListsUnreturnedTile(probe) =>
         (~report.threw /\ ~report.valid /\ report.errors # {})

\* C12: two generateMap calls with the same seed and parameters that both
\* return a map return maps with the same tile, node and edge counts and
\* the same resource and shape distributions.
C12_SameOptionsSameSummary ==
  (pc = "returned" /\ previous.pc = "returned" /\ options = previous.options) =>
    Summary(mapData) = previous.summary


ApplyOps == {"placeSettlement", "placeRoad", "upgradeToCity", "buyDevelopmentCard", "endTurn"}

HasGame == game # NoGame

KnownPlayer(playerId) == HasGame /\ playerId \in { game.players[p].id : p \in DOMAIN game.players }

\* C13: an endTurn action of a player of the game, applied through
\* applyAction, ends the turn: the call returns, currentPlayerIdx moves on to
\* the next player, and in the setup phase the placements are counted so that
\* the second round runs in reverse order and the main phase then starts
\* with the original order.
C13_EndTurnEndsTheTurn ==
  [][(lastCall'.action.type = "endTurn" /\ KnownPlayer(lastCall'.action.playerId))
       => /\ ~lastCall'.threw
          /\ game' = EndTurnStep(game)]_vars

\* Entries of tile.nodes that, as documented, bring the player a resource:
\* the tile was rolled, holds no robber, and (in enhanced mode) no active
\* knight of another player stands on any node of the tile.
DocumentedGrants(st, diceRoll, playerId, r, type) ==
  { << t, k >> \in { << t2, k2 >> \in (DOMAIN st.tiles) \X (1..7) :
                       k2 \in DOMAIN st.tiles[t2].nodes } :
      /\ st.tiles[t].diceNumber = diceRoll
      /\ ~st.tiles[t].robberPresent
      /\ st.tiles[t].resource = r
      /\ Occupied(st, st.tiles[t].nodes[k])
      /\ LET node == st.nodes[FindById(st.nodes, st.tiles[t].nodes[k])] IN
           /\ node.occupant.playerId = playerId
           /\ (node.occupant.type = "city") = (type = "city")
      /\ ~(/\ st.enhancedKnights
           /\ \E kn \in DOMAIN st.knights :
                /\ st.knights[kn].nodeId \in Range(st.tiles[t].nodes)
                /\ st.knights[kn].ownerId # playerId
                /\ st.knights[kn].active) }

\* C14: collectResources gives each player, per resource, 1 for every
\* settlement and 2 for every city on a rolled tile without robber, and with
\* enhancedKnights nothing from a tile on one of whose nodes stands an
\* active knight of another player.
C14_KnightOnTileBlocksOthers ==
  [][lastCall'.action.type = "collectResources"
       => \A p \in DOMAIN game.players : \A r \in ResourceNames :
            game'.players[p].resources[r] =
              game.players[p].resources[r]
                + Cardinality(DocumentedGrants(game, lastCall'.roll, game.players[p].id,
                                               r, "settlement"))
                + 2 * Cardinality(DocumentedGrants(game, lastCall'.roll,
                                                   game.players[p].id, r, "city"))]_vars

OccupiedNodes(st) == { n \in DOMAIN st.nodes : st.nodes[n].occupant # NoOccupant }

DistanceRule(st) ==
  \A e \in DOMAIN st.edges :
    ~(Occupied(st, st.edges[e].nodeA) /\ Occupied(st, st.edges[e].nodeB))

OneOwnerEach(st) ==
  \A n \in OccupiedNodes(st) :
    /\ Cardinality({ p \in DOMAIN st.players :
                       st.nodes[n].id \in Range(st.players[p].settlements)
                                            \cup Range(st.players[p].cities) }) = 1
    /\ \A p \in DOMAIN st.players :
         st.nodes[n].id \in Range(st.players[p].settlements) \cup Range(st.players[p].cities)
           => st.nodes[n].occupant.playerId = st.players[p].id

RoadOwnersKept ==
  (HasGame /\ game' # NoGame)
    => \A e \in DOMAIN game.edges :
         game.edges[e].roadOwner # NoId
           => game'.edges[e].roadOwner = game.edges[e].roadOwner

\* C15: after any sequence of applyAction calls from createGame, no edge
\* joins two occupied nodes, every occupied node belongs to exactly one
\* player, and a road owner, once set, stays.
C15_PlacementRules ==
  /\ [](HasGame => DistanceRule(game) /\ OneOwnerEach(game))
  /\ [][RoadOwnersKept]_vars

\* Two settlements stand on nodes no edge joins, and a road is owned.
C15_Witness ==
  /\ HasGame
  /\ Cardinality(OccupiedNodes(game)) >= 2
  /\ \E e \in DOMAIN game.edges : game.edges[e].roadOwner # NoId
  /\ lastCall.action.type \in ApplyOps
  /\ ~lastCall.threw

\* C16: applyAction, collectResources and moveRobber leave the state they
\* are given as it was; applyAction throws exactly for the actions
\* validateAction rejects, and the client's state is then what it was.
C16_CallsArePure ==
  [][(lastCall'.action.type \in ApplyOps \cup {"collectResources", "moveRobber"}
        /\ calls' = calls + 1)
       => /\ lastCall'.intact
          /\ lastCall'.action.type \in ApplyOps
               => /\ lastCall'.threw = (validateAction(game, lastCall'.action) # "ok")
                  /\ lastCall'.threw => game' = game]_vars

\* Resources were collected and the robber was moved, each call returning
\* a state different from the one it got, and then an action was rejected.
C16_Witness ==
  /\ HasGame
  /\ Len(game.diceHistory) > 0
  /\ \E t \in DOMAIN game.tiles : game.tiles[t].robberPresent
  /\ lastCall.action.type \in ApplyOps
  /\ lastCall.threw
  /\ lastCall.intact

\* C17: after createGame and any later moveRobber or playKnight calls,
\* exactly one tile has robberPresent, and it is the tile robberTileId names.
C17_OneRobberTile ==
  HasGame =>
    /\ Cardinality({ t \in DOMAIN game.tiles : game.tiles[t].robberPresent }) = 1
    /\ \A t \in DOMAIN game.tiles :
         game.tiles[t].robberPresent => game.tiles[t].id = game.robberTileId


\* C18: the regularization loop terminates: once entered it is left, after
\* at most maxIterations rounds, and no round starts when the previous one
\* ended without 4-sided eligible tile or a triangulation came back empty.
C18_LoopTerminates ==
  /\ [](iteration <= maxIterations)
  /\ [][(regPc = "loop" /\ iteration' = iteration + 1)
          => (fourSided > 0 /\ ~regTriangles.empty /\ iteration < maxIterations)]_vars
  /\ [][(regPc = "loop" /\ regPc' = "loop") => ~regTriangles'.empty]_vars
  /\ (regPc = "loop") ~> (regPc = "shaping")

\* The loop ran all its rounds and still had 4-sided tiles.
C18_Witness == regPc = "shaping" /\ iteration = maxIterations /\ fourSided > 0

\* C19: when a triangulation inside a round comes back empty, the later
\* stage works on the last good graph: points, triangles and the dual
\* graph it reads all come from one successful build.
C19_LastGoodGraph ==
  regPc = "shaping"
    => /\ ~regTriangles.empty
       /\ regTriangles.of = regPoints
       /\ regGraph = Built(regPoints, regTriangles)

\* The pairs the merge step of each scene built.
RegPairs ==
  AsTuple([sc \in DOMAIN RegScenes |-> UniquePairs(RegScenes[sc].points, RegGraphs[sc])])

MergedPoints(pairs) == UNION { Range(pairs[k]) : k \in DOMAIN pairs }

Occurrences(seq, x) == Cardinality({ i \in DOMAIN seq : seq[i] = x })

\* C20: in one merge round each point takes part in at most one merge, every
\* merged pair is replaced by exactly one new point at the midpoint of the
\* two, every point outside the merged pairs is kept unchanged, and the new
\* point count is the old count minus the number of merged pairs.
C20_MergeRound ==
  (mergeScene # 0 /\ mergeOut.merged) =>
    LET points == RegScenes[mergeScene].points
        pairs == RegPairs[mergeScene]
    IN /\ \A j, k \in DOMAIN pairs : j # k => Range(pairs[j]) \cap Range(pairs[k]) = {}
       /\ \A k \in DOMAIN pairs :
            Occurrences(mergeOut.newPoints,
                        Midpoint(points[pairs[k][1]], points[pairs[k][2]])) = 1
       /\ \A i \in DOMAIN points :
            i \notin MergedPoints(pairs) => Occurrences(mergeOut.newPoints, points[i]) = 1
       /\ Len(mergeOut.newPoints) = Len(points) - Len(pairs)

\* With pairs that share no point: one midpoint per pair, the others kept.
C20_DisjointPairsMerge ==
  (mergeScene # 0 /\ mergeOut.merged
     /\ \A j, k \in DOMAIN RegPairs[mergeScene] :
          j # k => Range(RegPairs[mergeScene][j]) \cap Range(RegPairs[mergeScene][k]) = {})
    => LET points == RegScenes[mergeScene].points
           pairs == RegPairs[mergeScene]
       IN /\ \A k \in DOMAIN pairs :
               Occurrences(mergeOut.newPoints,
                           Midpoint(points[pairs[k][1]], points[pairs[k][2]])) = 1
          /\ \A i \in DOMAIN points :
               i \notin MergedPoints(pairs) =>
                 Occurrences(mergeOut.newPoints, points[i]) = 1
          /\ Len(mergeOut.newPoints) = Len(points) - Len(pairs)

\* The land tiles reachable from seen over tile adjacency.
RECURSIVE ReachFrom(_, _, _)
ReachFrom(graph, land, seen) ==
  LET more == seen \cup { n \in land : \E t \in seen : n \in Range(graph.tileNeighbors[t]) }
  IN IF more = seen THEN seen ELSE ReachFrom(graph, land, more)

LandConnected(graph, land) ==
  land = {} \/ ReachFrom(graph, land, {CHOOSE t \in land : TRUE}) = land

Shaping == shapePc # "idle"
ShapeGraph == ShapeGraphs[shapeScene]
LandSet == Range(landTiles)
WaterSet == Range(waterTiles)

\* C21: after every erosion/accretion round, for any number of rounds, the
\* land set is still connected under tile adjacency.
C21_ErosionKeepsLandConnected ==
  (shapePc = "erode" /\ erosionRound > 0) => LandConnected(ShapeGraph, LandSet)

\* C22: every erosion/accretion round leaves the number of land tiles
\* unchanged (one tile removed and one added, or the removed tile restored).
C22_ErosionKeepsLandCount ==
  [][(shapePc = "erode" /\ shapePc' = "erode") => Len(landTiles') = Len(landTiles)]_vars

\* The position of neighbour n in the angular order around tile i.
AngularRank(scene, graph, i, n) ==
  LET dir(m) == << scene.points[m][1] - scene.points[i][1],
                   scene.points[m][2] - scene.points[i][2] >>
  IN Cardinality({ m \in Range(graph.tileNeighbors[i]) : AngleLess(dir(m), dir(n)) })

\* The water neighbours of tile i are not contiguous around its perimeter:
\* two of them are not next to each other in the angular order.
WaterSplitAround(scene, graph, water, i) ==
  LET neighbors == Range(graph.tileNeighbors[i])
      gap(a, b) == AngularRank(scene, graph, i, a) - AngularRank(scene, graph, i, b)
  IN \E a, b \in neighbors \cap water :
       /\ a # b
       /\ gap(a, b) \notin {1, -1, Cardinality(neighbors) - 1, 1 - Cardinality(neighbors)}

\* The land tiles the repair step is to turn into water.
Isolated(scene, graph, land, water) ==
  { i \in land : /\ WaterSplitAround(scene, graph, water, i)
                 /\ Range(graph.tileNeighbors[i]) \subseteq water }

\* C23: the repair step turns into water exactly the land tiles whose water
\* neighbours are not contiguous around the perimeter and whose neighbours
\* are all water; every other tile keeps its class.
C23_RepairReclassifiesIsolatedLand ==
  [][(shapePc = "erode" /\ shapePc' = "done") =>
       LET graph == ShapeGraphs[shapeScene]
           water == Range(DetermineWater(graph, landTiles))
           isolated == Isolated(ShapeScenes[shapeScene], graph, LandSet, water)
       IN /\ Range(landTiles') = LandSet \ isolated
          /\ Range(waterTiles') = water \cup isolated]_vars

C25_LandAndWater ==
  shapePc = "done" =>
    /\ LandSet \cap WaterSet = {}
    /\ \A t \in LandSet : \A n \in Range(ShapeGraph.tileNeighbors[t]) :
         n \in ShapeGraph.validTiles => n \in LandSet \cup WaterSet

C25_Witness ==
  /\ shapePc = "done"
  /\ erosionRound > 0
  /\ Len(landTiles) >= 2
  /\ tilesToFix # << >>
  /\ WaterSet # {}
  /\ \E t \in LandSet : \E n \in Range(ShapeGraph.tileNeighbors[t]) : n \in WaterSet
  /\ \E t \in LandSet : \E n \in Range(ShapeGraph.tileNeighbors[t]) : n \in LandSet

Expanded == shapeOptions.mapType \in {"expanded-hex", "delaunay-polygon"}

\* C26: in the expanded modes with a target of at least 1 tile the growth
\* loop ends for every choice of random picks, and the land it leaves holds
\* the seed, is connected, has at most numTiles tiles, and has fewer only
\* if no land tile has an eligible neighbour that is not land.
C26_GrowthEndsWithTargetLand ==
  /\ [](Expanded /\ shapePc = "erode" /\ erosionRound = 0 =>
          /\ shapeOptions.centerTile \in LandSet
          /\ LandConnected(ShapeGraph, LandSet)
          /\ Len(landTiles) <= shapeOptions.numTiles
          /\ Len(landTiles) < shapeOptions.numTiles =>
               \A t \in LandSet : NonLandNeighbors(ShapeGraph, landTiles, t) = {})
  /\ (shapePc = "grow") ~> (shapePc = "erode")

C26_Witness ==
  /\ Expanded
  /\ shapePc = "erode"
  /\ erosionRound = 0
  /\ Len(landTiles) > 1
  /\ Len(landTiles) < shapeOptions.numTiles

\* A map assembled by convertVizDataToMapData is held, not yet validated.
Assembled ==
  pc = "generated" /\ options.mapType = "expanded-delaunay" /\ window.kind = "declared"

AssembledFrom == generateMapData(Scenes[window.scene], window.landTiles)

\* The land tiles of the visualization data that list the blue node.
LandTilesTouching(viz, blueId) ==
  { t \in DOMAIN viz.tiles : viz.tiles[t].isLand /\ blueId \in Range(viz.tiles[t].blueNodes) }

PerimeterEdges(edges, nodes) ==
  { i \in DOMAIN edges : /\ edges[i].nodeA \in Range(nodes)
                         /\ edges[i].nodeB \in Range(nodes)
                         /\ edges[i].nodeA # edges[i].nodeB }

\* a and b are neighbours in the cyclic order of the list.
CyclicallyConsecutive(nodes, a, b) ==
  \E i \in DOMAIN nodes :
    SamePair(<< nodes[i], nodes[(i % Len(nodes)) + 1] >>, << a, b >>)

\* Every node of the list is an end of exactly two of its perimeter edges.
ClosedCycle(edges, nodes) ==
  /\ Len(nodes) >= 3
  /\ \A k \in DOMAIN nodes :
       Cardinality({ i \in PerimeterEdges(edges, nodes) :
                       nodes[k] \in {edges[i].nodeA, edges[i].nodeB} }) = 2

\* The nodes of land tile t of the given data that the filter kept.
RemainingNodes(viz, m, t) ==
  { NodeIdBase + viz.tiles[t].blueNodes[k] : k \in DOMAIN viz.tiles[t].blueNodes }
    \cap IdsOf(m.nodes)

PermutationOfRemaining(viz, m, t) ==
  /\ Range(m.tiles[t].nodes) = RemainingNodes(viz, m, t)
  /\ Len(m.tiles[t].nodes) = Cardinality(RemainingNodes(viz, m, t))

WalkKeepsNodes ==
  walkPc = "assembled" =>
    \A t \in DOMAIN walkMap.tiles :
      /\ PermutationOfRemaining(walkViz, walkMap, t)
      /\ ClosedCycle(walkMap.edges, walkMap.tiles[t].nodes)
           => Len(walkMap.tiles[t].edges) = Len(walkMap.tiles[t].nodes)

\* The proposal of the state that carries the id (NoProposal when none does).
ProposalOf(state, proposalId) ==
  IF FindById(state.tradeProposals, proposalId) = 0 THEN NoProposal
  ELSE state.tradeProposals[FindById(state.tradeProposals, proposalId)]

\* The player holds every current amount of the offer.
Holds(state, playerId, offer) ==
  \A k \in DOMAIN offer.current :
    state.players[FindById(state.players, playerId)].resources[offer.current[k][1]]
      >= offer.current[k][2]

RECURSIVE TotalOf(_, _, _)
\* The amount of the resource in the hands of the first n players.
TotalOf(state, resource, n) ==
  IF n = 0 THEN 0
  ELSE state.players[n].resources[resource] + TotalOf(state, resource, n - 1)

\* C29: executeTrade succeeds only if the proposer and the recipient are both
\* in agreedBy, one of them is the current player and each still holds the
\* current resources it offers; the state returned on success lacks the
\* proposal, has the same total of every resource over all players and no
\* negative resource count; on failure no new state is returned and the
\* input state is unchanged.
C29_ExecuteTrade ==
  [][ tradeResult'.op = "executeTrade" =>
        LET proposal == ProposalOf(tradeState, tradeResult'.proposalId)
            newState == tradeResult'.newState
        IN IF tradeResult'.ok
             THEN /\ proposal # NoProposal
                  /\ {proposal.proposerId, proposal.recipientId}
                       \subseteq Range(proposal.agreedBy)
                  /\ tradeState.players[tradeState.currentPlayerIdx + 1].id
                       \in {proposal.proposerId, proposal.recipientId}
                  /\ Holds(tradeState, proposal.proposerId, proposal.proposerOffer)
                  /\ Holds(tradeState, proposal.recipientId, proposal.recipientOffer)
                  /\ ProposalOf(newState, tradeResult'.proposalId) = NoProposal
                  /\ Len(newState.tradeProposals) = Len(tradeState.tradeProposals) - 1
                  /\ \A r \in ResourceNames :
                       TotalOf(newState, r, Len(newState.players))
                         = TotalOf(tradeState, r, Len(tradeState.players))
                  /\ \A p \in DOMAIN newState.players : \A r \in ResourceNames :
                       newState.players[p].resources[r] >= 0
             ELSE /\ newState = NoTradeState
                  /\ tradeState' = tradeState ]_vars

\* A trade of ore against wood between players 1 and 2 was executed.
C29_Witness ==
  /\ tradeResult.op = "executeTrade"
  /\ tradeResult.ok
  /\ tradeState.players[1].resources["wood"] = 2
  /\ tradeState.players[2].resources["ore"] = 1
  /\ tradeState.tradeProposals = << >>

\* executeTrade refused a proposal both parties agreed to, because a party
\* lost what it offers.
ExecuteRefusedForResources ==
  /\ tradeResult.op = "executeTrade"
  /\ ~tradeResult.ok
  /\ tradeResult.reason \in {"Proposer no longer has required resources",
                             "Recipient no longer has required resources"}

Parties(proposal) == {proposal.proposerId, proposal.recipientId}

\* C30: after any sequence of createTradeProposal, agreeToTrade and
\* declineTrade calls every proposal's agreedBy and declinedBy are disjoint
\* and hold only its proposer and recipient, and declineTrade removes a
\* proposal only when both of its parties have declined.
C30_AgreedAndDeclined ==
  /\ [](\A i \in DOMAIN tradeState.tradeProposals :
          LET proposal == tradeState.tradeProposals[i]
          IN /\ Range(proposal.agreedBy) \cap Range(proposal.declinedBy) = {}
             /\ Range(proposal.agreedBy) \cup Range(proposal.declinedBy)
                  \subseteq Parties(proposal))
  /\ [][ (/\ tradeResult'.op = "declineTrade"
          /\ ProposalOf(tradeState, tradeResult'.proposalId) # NoProposal
          /\ ProposalOf(tradeState', tradeResult'.proposalId) = NoProposal)
         => Parties(ProposalOf(tradeState, tradeResult'.proposalId))
              \subseteq Range(ProposalOf(tradeState, tradeResult'.proposalId).declinedBy)
                          \cup {tradeResult'.playerId} ]_vars

\* What does hold of the two lists: they are disjoint, the agreed players are
\* parties, and a removal by declineTrade follows the decline of both.
AgreedAreParties ==
  /\ [](\A i \in DOMAIN tradeState.tradeProposals :
          LET proposal == tradeState.tradeProposals[i]
          IN /\ Range(proposal.agreedBy) \cap Range(proposal.declinedBy) = {}
             /\ Range(proposal.agreedBy) \subseteq Parties(proposal))
  /\ [][ (/\ tradeResult'.op = "declineTrade"
          /\ ProposalOf(tradeState, tradeResult'.proposalId) # NoProposal
          /\ ProposalOf(tradeState', tradeResult'.proposalId) = NoProposal)
         => Parties(ProposalOf(tradeState, tradeResult'.proposalId))
              \subseteq Range(ProposalOf(tradeState, tradeResult'.proposalId).declinedBy)
                          \cup {tradeResult'.playerId} ]_vars

====
